---------------------------- MODULE Spec2Model ----------------------------
(***************************************************************************)
(* promised-db (src/src/promised-db.ts, the 3.0 sources at lines 218-529): *)
(* the PromisedDB handle (open request, migrations, signal promises,       *)
(* close) and PromisedDB.transaction (engine scope, result promise,        *)
(* timeout helper), together with the IndexedDB engine and the host's      *)
(* timers and microtasks they run against.                                 *)
(*                                                                         *)
(* Time is abstract: an armed host timer may expire at any later task, so  *)
(* every value of ms relative to the engine's own timing is covered.       *)
(***************************************************************************)
EXTENDS Integers, Sequences, FiniteSets, TLC

\* ------------------------------------------------------------------ bounds
NumHandles == 2      \* PromisedDB objects constructed on the one database name
MaxN == 2            \* longest migration list / highest explicit version
NumTx == 1           \* transaction() calls a caller makes one at a time
MaxTx == 2           \* transaction() calls a caller makes side by side
MaxTimeouts == 2     \* timeout() calls per transaction
MaxReq == 1          \* engine requests a transaction body issues
MaxQueue == 3        \* callbacks waiting on one handle's db_ promise
MaxKey == 3          \* highest primary key of the object store
MaxLimit == 3        \* highest limit given to getAll / getAllKeys
MaxRegs == 3         \* next / complete / catch calls on one cursor builder

Handles == 1..NumHandles
Txs == 1..MaxTx
SingleTxs == 1..NumTx
TimerIds == 1..MaxTimeouts

VARIABLES
    \* the engine's database (one name)
    diskVersion,     \* committed version, 0 = the database does not exist
    diskApplied,     \* committed schema history: the migration indices applied
    \* one PromisedDB object per handle
    hPhase,          \* none | threw | stuck | requested | versionchange |
                     \* waiting | upgrading | open | closed | failed
    hMode,           \* "migrations" | "explicit"
    hLen,            \* migrations.length, or the explicit version argument
    hTarget,         \* `version` handed to indexedDB.open
    dbPromise,       \* db_ : pending | resolved | rejected
    openError,       \* rejection reason of db_
    blockedSig,      \* blockedPromise_ : pending | resolved | rejected
    outdatedSig,     \* versionChangePromise_ : pending | resolved
    closedSig,       \* closedPromise_ : pending | resolved
    reactions,       \* callbacks registered with db_.then, in order
    ran,             \* migration indices started in this handle's upgrade
    upgradeCalls,    \* invocations of the upgrade routine
    upgradeOld,      \* oldVersion of the upgrade event (-1: none)
    upThrew,         \* the upgrade routine threw / the upgrade is doomed
    sawVersion,      \* on-disk version when the engine evaluated the open
    closeCalled,     \* the caller invoked close() on the handle
    dbCloseCalls,    \* db.close() calls the handle made
    closeEvents,     \* close events the engine fired at the connection
    params,          \* what the constructor was given as vorm and upgrade
    \* one transaction() call per t
    txHandle,        \* handle the call was made on (0: not called)
    calledAt,        \* at the call: close() had been invoked on the handle
                     \* (close), and the state of its db_ (db)
    scope,           \* idle | queued | active | committing | aborting |
                     \* completed | aborted | refused
    inFlight,        \* engine requests pending in the scope
    trError,         \* tr.error : "null" | "EngineError"
    timeoutID,       \* closure variable timeoutID (0 = undefined)
    armed,           \* host timers of this call still armed
    nTimeouts,       \* timeout() calls made so far (next timer id - 1)
    timedOut,        \* closure variable timedOut
    result,          \* closure constant result: unset | plain | futFulfilled |
                     \* futRejected | futPending
    bodyValue,       \* the value the body returned, or its future fulfils with
    outcome,         \* the returned promise: pending | fulfilled | rejected
    value,           \* its fulfilment value
    reason,          \* its rejection reason
    locked,          \* resolve/reject was already called on it
    \* history
    scopesOpened,    \* db.transaction() calls made for t
    bodyCalls,       \* invocations of fn for t
    settles,         \* changes of state of the returned promise
    abortBy,         \* what aborted the scope first: none | body | engine | timer
    timerAborts,     \* tr.abort() calls made by timer callbacks
    expiredLive,     \* a timer expired while the scope was active or committing
    reqs             \* per scope: the requests made through request(), in order

VARIABLES
    store,           \* primary keys of the records of the object store
    curKind,         \* none | cursor | keyCursor | getAll | getAllKeys
    curRange,        \* the key range the cursor was opened over
    curDir,          \* the direction given by the caller: next | prev
    builder,         \* callbackFn_, completeFn_, errorFn_ of the cursor builder
    lastReg,         \* per builder method: the callback of its latest call
    regs,            \* builder method calls made by the caller
    cursorReq,       \* none | pending | ready | exhausted | failed
    delivered,       \* positions the engine has delivered
    continues,       \* cursor.continue() calls made
    calls,           \* the invocations of the builder's callbacks, in order
    limit,           \* the limit given to getAll / getAllKeys
    getAllResult,    \* the array getAll collects into
    getAllPromise    \* the promise getAll returned

connVars == <<diskVersion, diskApplied, hPhase, hMode, hLen, hTarget, dbPromise,
              openError, blockedSig, outdatedSig, closedSig, ran, upgradeCalls,
              upgradeOld, upThrew, sawVersion, closeCalled, dbCloseCalls,
              closeEvents, params>>
txVars == <<txHandle, calledAt, scope, inFlight, trError, timeoutID, armed,
            nTimeouts, timedOut, result, bodyValue, outcome, value, reason, locked,
            scopesOpened, bodyCalls, settles, abortBy, timerAborts, expiredLive,
            reqs>>
curVars == <<store, curKind, curRange, curDir, builder, lastReg, regs,
             cursorReq, delivered, continues, calls, limit, getAllResult,
             getAllPromise>>
vars == <<connVars, reactions, txVars, curVars>>

\* ---------------------------------------------------------------- helpers
Range(a, b) == [i \in 1..(b - a + 1) |-> a + i - 1]

Terminal(t) == scope[t] \in {"completed", "aborted"}

\* Promise jobs that run before the next task: reactions of a settled db_,
\* and the adoption of an already settled returned future.
MicrotaskPending ==
    \/ \E h \in Handles : dbPromise[h] # "pending" /\ reactions[h] # <<>>
    \/ \E t \in Txs : /\ locked[t] /\ outcome[t] = "pending"
                      /\ result[t] \in {"futFulfilled", "futRejected"}


\* ------------------------------------------------------------- migrations
Modes == {"migrations", "explicit"}
Custom == -1         \* schema step made by a caller's own upgrade function
NoThrow == MaxN      \* no migration of the list throws

\* while (migrationVersion < version) migrations[migrationVersion++](db);
\* the migration with index failAt throws, which ends the loop.
RECURSIVE RunFrom(_, _, _)
RunFrom(mv, version, failAt) ==
    IF mv < version
    THEN IF mv = failAt THEN <<mv>>
         ELSE <<mv>> \o RunFrom(mv + 1, version, failAt)
    ELSE <<>>

MigrationLoop_SkipFirst(mv, version, failAt) == RunFrom(mv + 1, version, failAt)

MigrationLoop_FromZero(mv, version, failAt) == RunFrom(0, version, failAt)

MigrationLoop(mv, version, failAt) == RunFrom(mv, version, failAt)

\* The upgrade routine the constructor builds from a migration list: the
\* version check, then the loop. ran: the migrations started; threw: whether
\* the routine ended by an exception; error: the exception.
UpgradeMigrations_NoVersionCheck(migrationVersion, version, failAt) ==
    [ran |-> MigrationLoop(migrationVersion, version, failAt),
     threw |-> failAt \in migrationVersion..(version - 1),
     error |-> IF failAt \in migrationVersion..(version - 1)
               THEN "MigrationError" ELSE "none"]

UpgradeMigrations(migrationVersion, version, failAt) ==
    IF migrationVersion < 0 \/ migrationVersion >= version
    THEN [ran |-> <<>>, threw |-> TRUE, error |-> "VersionError"]
    ELSE [ran |-> MigrationLoop(migrationVersion, version, failAt),
          threw |-> failAt \in migrationVersion..(version - 1),
          error |-> IF failAt \in migrationVersion..(version - 1)
                    THEN "MigrationError" ELSE "none"]

\* `version`: vorm itself, or migrations.length.
TargetVersion_OneMore(mode, n) == n + 1

TargetVersion(mode, n) == n

\* -------------------------------------------------------------- the handle
\* db_.then(callback): the callbacks registered on one promise run in the
\* order of their then() calls.
ThenCallback_First(queue, callback) == <<callback>> \o queue

ThenCallback(queue, callback) == Append(queue, callback)

\* The callbacks db_.then holds: a transaction() call's, or a close() call's.
TxReaction(t) == [kind |-> "tx", tx |-> t]

CloseReaction == [kind |-> "close", tx |-> 0]

\* A connection is closed for the engine once close was requested and its
\* scopes have all ended.
ConnectionLive(g) ==
    \/ hPhase[g] = "open"
    \/ /\ hPhase[g] = "closed"
       /\ \E t \in Txs : /\ txHandle[t] = g
                          /\ scope[t] \in {"active", "committing", "aborting"}

OthersOpen_Never(h) == FALSE

OthersOpen(h) == \E g \in Handles : g # h /\ ConnectionLive(g)

\* req.error || new DOMException(..., "UnknownError")
OpenRequestError_Unknown(e) == "UnknownError"

OpenRequestError(e) == IF e = "none" THEN "UnknownError" ELSE e

\* get opened(): db_.then(() => {}, (_err) => {}), a promise that is
\* fulfilled once db_ is settled, whichever way.
opened(h) == IF dbPromise[h] = "pending" THEN "pending" ELSE "resolved"

\* get closed(), get outdated(), get blocked()
closed(h) == closedSig[h]

outdated(h) == outdatedSig[h]

blocked(h) == blockedSig[h]

\* db.onversionchange = () => { resolveVersionChange(); }: the handler leaves
\* the connection as it is.
OnVersionChange_Closes(phase) == "closed"

OnVersionChange(phase) == phase

\* db.close() called by close() fires no close event: closedPromise_ stays.
AfterDbClose_FiresClose(sig) == "resolved"

AfterDbClose(sig) == sig

\* req.onerror only calls rejectDB: a failed open leaves closedPromise_, whose
\* resolver is handed to the engine by req.onsuccess alone, as it is.
AfterOpenError_ResolvesClosed(sig) == "resolved"

AfterOpenError(sig) == sig

UpgradeInProgress(h) ==
    \E g \in Handles : g # h /\ hPhase[g] \in {"versionchange", "waiting", "upgrading"}

\* The second and third argument of the constructor, by what the constructor
\* tests of them: typeof vorm === "number" or Array.isArray(vorm) or neither,
\* and typeof upgrade === "function" or not.
VormKinds == {"number", "array", "other"}
UpgradeKinds == {"function", "undefined"}
\* An upgrade function given after an array is overwritten by the routine the
\* constructor builds, so that list is the list of the array alone.
ParameterLists == (VormKinds \X UpgradeKinds) \ {<<"array", "function">>}
NoParameters == <<"none", "none">>

\* if (typeof vorm === "number" && typeof upgrade === "function") ... else
\* { if (!Array.isArray(vorm)) throw new TypeError(...); ... }
ParameterList_NoArrayTest(vorm, upgrade) ==
    IF vorm = "number" /\ upgrade = "function" THEN "explicit" ELSE "migrations"

ParameterList(vorm, upgrade) ==
    IF vorm = "number" /\ upgrade = "function" THEN "explicit"
    ELSE IF vorm # "array" THEN "TypeError"
    ELSE "migrations"

\* The constructor returned an object.
Constructed(h) == hPhase[h] \notin {"none", "threw"}

\* new PromisedDB(name, migrations) / new PromisedDB(name, version, upgrade):
\* the four promises are created and indexedDB.open(name, version) is called
\* inside the innermost executor, that of blockedPromise_. open() throws a
\* TypeError for version 0, which that executor turns into a rejection of
\* blockedPromise_; db_ then never settles.
Construct(h) ==
    /\ hPhase[h] = "none"
    /\ \A g \in Handles : g < h => hPhase[g] # "none"
    /\ \E list \in ParameterLists, n \in 0..MaxN :
        LET mode == ParameterList(list[1], list[2]) IN
        /\ params' = [params EXCEPT ![h] = list]
        /\ IF mode = "TypeError"
           THEN /\ n = 0
                /\ hPhase' = [hPhase EXCEPT ![h] = "threw"]
                /\ UNCHANGED <<hMode, hLen, hTarget, blockedSig, sawVersion>>
           ELSE /\ hMode' = [hMode EXCEPT ![h] = mode]
                /\ hLen' = [hLen EXCEPT ![h] = n]
                /\ hTarget' = [hTarget EXCEPT ![h] = TargetVersion(mode, n)]
                /\ IF TargetVersion(mode, n) = 0
                   THEN /\ hPhase' = [hPhase EXCEPT ![h] = "stuck"]
                        /\ blockedSig' = [blockedSig EXCEPT ![h] = "rejected"]
                        /\ sawVersion' = [sawVersion EXCEPT ![h] = diskVersion]
                   ELSE /\ hPhase' = [hPhase EXCEPT ![h] = "requested"]
                        /\ UNCHANGED <<blockedSig, sawVersion>>
    /\ UNCHANGED <<diskVersion, diskApplied, dbPromise, openError,
                   outdatedSig, closedSig, ran, upgradeCalls, upgradeOld,
                   upThrew, closeCalled, dbCloseCalls, closeEvents, reactions,
                   txVars, curVars>>

\* The engine takes up the open request. Below the on-disk version: error
\* event, req.onerror rejects db_. At the on-disk version: success event,
\* req.onsuccess installs onversionchange/onclose and resolves db_. Above it:
\* a versionchange event goes to every open connection, whose
\* db.onversionchange resolves its versionChangePromise_.
EngineOpen(h) ==
    /\ ~MicrotaskPending
    /\ hPhase[h] = "requested"
    /\ ~UpgradeInProgress(h)
    /\ sawVersion' = [sawVersion EXCEPT ![h] = diskVersion]
    /\ IF hTarget[h] < diskVersion
       THEN /\ hPhase' = [hPhase EXCEPT ![h] = "failed"]
            /\ dbPromise' = [dbPromise EXCEPT ![h] = "rejected"]
            /\ openError' = [openError EXCEPT ![h] = OpenRequestError("VersionError")]
            /\ UNCHANGED outdatedSig
       ELSE IF hTarget[h] = diskVersion
       THEN /\ hPhase' = [hPhase EXCEPT ![h] = "open"]
            /\ dbPromise' = [dbPromise EXCEPT ![h] = "resolved"]
            /\ UNCHANGED <<openError, outdatedSig>>
       ELSE /\ hPhase' = [g \in Handles |->
                            IF g = h THEN "versionchange"
                            ELSE IF hPhase[g] = "open" THEN OnVersionChange(hPhase[g])
                            ELSE hPhase[g]]
            /\ outdatedSig' = [g \in Handles |->
                                 IF g # h /\ hPhase[g] = "open" THEN "resolved"
                                 ELSE outdatedSig[g]]
            /\ UNCHANGED <<dbPromise, openError>>
    /\ closedSig' = [closedSig EXCEPT ![h] =
                        IF hPhase'[h] = "failed" THEN AfterOpenError(@) ELSE @]
    /\ UNCHANGED <<diskVersion, diskApplied, hMode, hLen, hTarget, blockedSig,
                   ran, upgradeCalls, upgradeOld, upThrew, closeCalled,
                   dbCloseCalls, closeEvents, params, reactions, txVars,
                   curVars>>

\* req.onblocked: connections of the older version are still open after
\* their versionchange events; resolveBlocked().
BlockedEvent(h) ==
    /\ ~MicrotaskPending
    /\ hPhase[h] = "versionchange"
    /\ OthersOpen(h)
    /\ hPhase' = [hPhase EXCEPT ![h] = "waiting"]
    /\ blockedSig' = [blockedSig EXCEPT ![h] = "resolved"]
    /\ UNCHANGED <<diskVersion, diskApplied, hMode, hLen, hTarget, dbPromise,
                   openError, outdatedSig, closedSig, ran, upgradeCalls,
                   upgradeOld, upThrew, sawVersion, closeCalled, dbCloseCalls,
                   closeEvents, params, reactions, txVars, curVars>>

\* req.onupgradeneeded, once no other connection is open: db.onerror is
\* installed and upgrade(db, oldVersion, newVersion) runs to its end inside
\* the engine's upgrade transaction.
UpgradeEvent(h, oldVersion) ==
    /\ ~MicrotaskPending
    /\ hPhase[h] \in {"versionchange", "waiting"}
    /\ ~OthersOpen(h)
    /\ hPhase' = [hPhase EXCEPT ![h] = "upgrading"]
    /\ upgradeCalls' = [upgradeCalls EXCEPT ![h] = @ + 1]
    /\ upgradeOld' = [upgradeOld EXCEPT ![h] = oldVersion]
    /\ \E failAt \in 0..NoThrow :
        LET r == IF hMode[h] = "migrations"
                 THEN UpgradeMigrations(oldVersion, hTarget[h], failAt)
                 ELSE [ran |-> <<>>, threw |-> failAt # NoThrow,
                       error |-> IF failAt # NoThrow THEN "UpgradeError" ELSE "none"]
        IN /\ ran' = [ran EXCEPT ![h] = r.ran]
           /\ upThrew' = [upThrew EXCEPT ![h] = r.threw]
    /\ UNCHANGED <<diskVersion, diskApplied, hMode, hLen, hTarget, dbPromise,
                   openError, blockedSig, outdatedSig, closedSig, sawVersion,
                   closeCalled, dbCloseCalls, closeEvents, params, reactions,
                   txVars, curVars>>

\* The engine reports the on-disk version as the event's oldVersion.
UpgradeNeeded(h) == UpgradeEvent(h, diskVersion)

\* Versions an engine may report as oldVersion when it does not keep to the
\* on-disk version (early WebKit reported a number far above any version for
\* a database that did not exist yet).
ReportedVersions == (0 - 1)..(MaxN + 1)

UpgradeReported(h) == \E oldVersion \in ReportedVersions : UpgradeEvent(h, oldVersion)

\* db.onerror during the upgrade: a request the upgrade routine issued fails
\* and nobody intercepts it; rejectDB(error), and the engine will abort the
\* upgrade transaction.
UpgradeRequestError(h) ==
    /\ ~MicrotaskPending
    /\ hPhase[h] = "upgrading"
    /\ ~upThrew[h]
    /\ upThrew' = [upThrew EXCEPT ![h] = TRUE]
    /\ dbPromise' = [dbPromise EXCEPT ![h] = "rejected"]
    /\ openError' = [openError EXCEPT ![h] = "RequestError"]
    /\ UNCHANGED <<diskVersion, diskApplied, hPhase, hMode, hLen, hTarget,
                   blockedSig, outdatedSig, closedSig, ran, upgradeCalls,
                   upgradeOld, sawVersion, closeCalled, dbCloseCalls,
                   closeEvents, params, reactions, txVars, curVars>>

\* The upgrade transaction ends. Aborted (the routine threw, or a request
\* failed): the engine rolls the upgrade back and fires error at the open
\* request, req.onerror rejects db_. Committed: the new version is on disk
\* and req.onsuccess resolves db_.
UpgradeFinish(h) ==
    /\ ~MicrotaskPending
    /\ hPhase[h] = "upgrading"
    /\ IF upThrew[h]
       THEN /\ hPhase' = [hPhase EXCEPT ![h] = "failed"]
            /\ dbPromise' = [dbPromise EXCEPT ![h] = "rejected"]
            /\ openError' = [openError EXCEPT ![h] =
                               IF dbPromise[h] = "pending"
                               THEN OpenRequestError("AbortError") ELSE @]
            /\ UNCHANGED <<diskVersion, diskApplied>>
       ELSE /\ hPhase' = [hPhase EXCEPT ![h] = "open"]
            /\ dbPromise' = [dbPromise EXCEPT ![h] = "resolved"]
            /\ diskVersion' = hTarget[h]
            /\ diskApplied' = diskApplied \o
                   (IF hMode[h] = "migrations" THEN ran[h] ELSE <<Custom>>)
            /\ UNCHANGED openError
    /\ closedSig' = [closedSig EXCEPT ![h] =
                        IF hPhase'[h] = "failed" THEN AfterOpenError(@) ELSE @]
    /\ UNCHANGED <<hMode, hLen, hTarget, blockedSig, outdatedSig, ran,
                   upgradeCalls, upgradeOld, upThrew, sawVersion, closeCalled,
                   dbCloseCalls, closeEvents, params, reactions, txVars,
                   curVars>>

\* close(): this.db_.then(db => db.close(), () => {}) registers the callbacks.
CloseCall(h) ==
    /\ Constructed(h)
    /\ ~closeCalled[h]
    /\ Len(reactions[h]) < MaxQueue
    /\ closeCalled' = [closeCalled EXCEPT ![h] = TRUE]
    /\ reactions' = [reactions EXCEPT ![h] = ThenCallback(@, CloseReaction)]
    /\ UNCHANGED <<diskVersion, diskApplied, hPhase, hMode, hLen, hTarget,
                   dbPromise, openError, blockedSig, outdatedSig, closedSig,
                   ran, upgradeCalls, upgradeOld, upThrew, sawVersion,
                   dbCloseCalls, closeEvents, params, txVars, curVars>>

\* The fulfilment callback of close(): db.close().
CloseRun(h) ==
    /\ dbPromise[h] = "resolved"
    /\ reactions[h] # <<>>
    /\ Head(reactions[h]) = CloseReaction
    /\ reactions' = [reactions EXCEPT ![h] = Tail(@)]
    /\ hPhase' = [hPhase EXCEPT ![h] = "closed"]
    /\ dbCloseCalls' = [dbCloseCalls EXCEPT ![h] = @ + 1]
    /\ closedSig' = [closedSig EXCEPT ![h] = AfterDbClose(@)]
    /\ UNCHANGED <<diskVersion, diskApplied, hMode, hLen, hTarget, dbPromise,
                   openError, blockedSig, outdatedSig, ran, upgradeCalls,
                   upgradeOld, upThrew, sawVersion, closeCalled, closeEvents,
                   params, txVars, curVars>>

\* The rejection callback of close(), () => {}: the db.close() calls made
\* stay as they were.
CloseRejected_ClosesAnyway(n) == n + 1

CloseRejected(n) == n

\* The rejection callback of close(): the open error is ignored.
CloseIgnored(h) ==
    /\ dbPromise[h] = "rejected"
    /\ reactions[h] # <<>>
    /\ Head(reactions[h]) = CloseReaction
    /\ reactions' = [reactions EXCEPT ![h] = Tail(@)]
    /\ dbCloseCalls' = [dbCloseCalls EXCEPT ![h] = CloseRejected(@)]
    /\ UNCHANGED <<diskVersion, diskApplied, hPhase, hMode, hLen, hTarget,
                   dbPromise, openError, blockedSig, outdatedSig, closedSig,
                   ran, upgradeCalls, upgradeOld, upThrew, sawVersion,
                   closeCalled, closeEvents, params, txVars, curVars>>

\* The engine closes the connection itself (the user clears the storage,
\* space runs out): the scopes still running on it are aborted and the close
\* event goes to db.onclose, which calls resolveClosed().
ExternalClose(h) ==
    /\ ~MicrotaskPending
    /\ ConnectionLive(h)
    /\ closeEvents[h] = 0
    /\ hPhase' = [hPhase EXCEPT ![h] = "closed"]
    /\ closedSig' = [closedSig EXCEPT ![h] = "resolved"]
    /\ closeEvents' = [closeEvents EXCEPT ![h] = @ + 1]
    /\ LET hit(t) == txHandle[t] = h /\ scope[t] \in {"active", "committing"} IN
        /\ scope' = [t \in Txs |-> IF hit(t) THEN "aborting" ELSE scope[t]]
        /\ inFlight' = [t \in Txs |-> IF hit(t) THEN 0 ELSE inFlight[t]]
        /\ trError' = [t \in Txs |-> IF hit(t) THEN "EngineError" ELSE trError[t]]
        /\ abortBy' = [t \in Txs |-> IF hit(t) THEN "engine" ELSE abortBy[t]]
    /\ UNCHANGED <<diskVersion, diskApplied, hMode, hLen, hTarget, dbPromise,
                   openError, blockedSig, outdatedSig, ran, upgradeCalls,
                   upgradeOld, upThrew, sawVersion, closeCalled, params,
                   dbCloseCalls, reactions, txHandle, calledAt, timeoutID,
                   armed, nTimeouts, timedOut, result, bodyValue, outcome,
                   value, reason, locked, scopesOpened, bodyCalls, settles,
                   timerAborts, expiredLive, reqs, curVars>>

\* ------------------------------------------------- the returned promise
NewPromise == [outcome |-> "pending", value |-> "none", reason |-> "none",
               locked |-> FALSE]

PromiseOf(t) == [outcome |-> outcome[t], value |-> value[t], reason |-> reason[t],
                 locked |-> locked[t]]

Fulfilled(v) == [outcome |-> "fulfilled", value |-> v, reason |-> "none",
                 locked |-> TRUE]

Rejected(r) == [outcome |-> "rejected", value |-> "none", reason |-> r,
                locked |-> TRUE]

\* reject(r): a promise that was already resolved or rejected ignores it.
Reject(p, r) ==
    IF p.locked THEN p ELSE Rejected(r)

\* resolve(result): `result` is still in its dead zone when the body threw
\* (the read throws before resolve is called); a plain value fulfils at once;
\* a future locks the promise to it, and the promise follows it later.
Resolve_DropsValue(p, res, v) ==
    IF p.locked \/ res = "unset" THEN p
    ELSE IF res = "plain" THEN Fulfilled("undefined")
    ELSE [p EXCEPT !.locked = TRUE]

Resolve(p, res, v) ==
    IF p.locked \/ res = "unset" THEN p
    ELSE IF res = "plain" THEN Fulfilled(v)
    ELSE [p EXCEPT !.locked = TRUE]

SetPromise(t, p) ==
    /\ outcome' = [outcome EXCEPT ![t] = p.outcome]
    /\ value' = [value EXCEPT ![t] = p.value]
    /\ reason' = [reason EXCEPT ![t] = p.reason]
    /\ locked' = [locked EXCEPT ![t] = p.locked]
    /\ settles' = [settles EXCEPT ![t] = @ + (IF p.outcome # outcome[t] THEN 1 ELSE 0)]

\* The promise once the executor has run the body: fn returning leaves it
\* pending (only oncomplete/onabort settle it); fn throwing rejects it.
AfterBody_ResolveEarly(how) ==
    IF how = "throw" THEN Reject(NewPromise, "thrown")
    ELSE Resolve(NewPromise, how, "undefined")

AfterBody(how) ==
    IF how = "throw" THEN Reject(NewPromise, "thrown") ELSE NewPromise

\* ------------------------------------------------------ the request adapter
\* request(req): a new promise, settled by the handlers request() installs on
\* req. ev is the event the engine delivered to req (none yet, success or
\* error), res what req.result or req.error held then.
NewRequest == [ev |-> "none", res |-> "none", fut |-> NewPromise]

\* req.onsuccess = () => { resolve(req.result); }
RequestOnSuccess(p, res) == Resolve(p, "plain", res)

\* req.onerror = () => { reject(req.error || new DOMException(..., "UnknownError")); }
RequestOnError_Resolves(p, err) == Resolve(p, "plain", "undefined")

RequestOnError_Ignored(p, err) == p

RequestOnError(p, err) == Reject(p, IF err = "null" THEN "UnknownError" ELSE err)

\* The scope's requests no event was delivered to yet. The engine serves the
\* requests of a scope in the order they were made.
Undelivered(t) == {k \in 1..Len(reqs[t]) : reqs[t][k].ev = "none"}

NextRequest(t) == CHOOSE k \in Undelivered(t) : \A j \in Undelivered(t) : k <= j

\* The engine delivers an event to request k of scope t.
Deliver(q, k, ev, res) ==
    [q EXCEPT ![k] = [ev |-> ev, res |-> res,
                      fut |-> IF ev = "success" THEN RequestOnSuccess(@.fut, res)
                              ELSE RequestOnError(@.fut, res)]]

\* What the request's error handler does to the promise transaction()
\* returned: nothing, it only rejects the request's own promise.
AfterRequestError_Rejects(p, err) == Reject(p, err)

AfterRequestError(p, err) == p

\* The body's result when the body returned the future of its first request.
FollowRequest(res, k, ev) ==
    IF res = "futRequest" /\ k = 1
    THEN IF ev = "success" THEN "futFulfilled" ELSE "futRejected"
    ELSE res

\* ------------------------------------------------------ the timeout helper
TimerState(t) == [armed |-> armed[t], id |-> timeoutID[t], n |-> nTimeouts[t]]

\* tc.timeout(ms): timeoutID = setTimeout(...). The timer timeoutID named
\* before is not cleared.
TimeoutCall(st) ==
    [armed |-> st.armed \cup {st.n + 1}, id |-> st.n + 1, n |-> st.n + 1]

RECURSIVE TimeoutCalls(_, _)
TimeoutCalls(st, k) ==
    IF k = 0 THEN st ELSE TimeoutCalls(TimeoutCall(st), k - 1)

\* cancelTimeout(): clears the timer timeoutID names, if any.
CancelTimeout(st) ==
    IF st.id # 0 THEN [st EXCEPT !.armed = @ \ {st.id}, !.id = 0] ELSE st

\* The timers once the executor has run the body: the executor has no catch
\* around fn(tr, tc), so a throwing body leaves its timers as they are.
TimersAfterBody_ThrowDisarms(how, st) ==
    IF how = "throw" THEN CancelTimeout(st) ELSE st

TimersAfterBody(how, st) == st

SetTimers(t, st) ==
    /\ armed' = [armed EXCEPT ![t] = st.armed]
    /\ timeoutID' = [timeoutID EXCEPT ![t] = st.id]
    /\ nTimeouts' = [nTimeouts EXCEPT ![t] = st.n]

\* ------------------------------------------------------------ transaction
BodyOutcomes == {"plain", "futFulfilled", "futRejected", "futPending",
                 "futRequest", "throw"}

\* What a body returns, or the future it returned fulfils with: nothing
\* (undefined) or a value.
Values == {"undefined", "v"}

\* The executor calls db.transaction() once and then fn once, in one turn.
ExecutorCalls_BodyDeferred == [scopes |-> 1, bodies |-> 0]

ExecutorCalls == [scopes |-> 1, bodies |-> 1]

\* transaction(): this.db_.then(db => new Promise(...)) registers the callback.
TxCall(t) ==
    /\ scope[t] = "idle"
    /\ \A u \in Txs : u < t => scope[u] # "idle"
    /\ \E h \in Handles :
        /\ Constructed(h)
        /\ Len(reactions[h]) < MaxQueue
        /\ txHandle' = [txHandle EXCEPT ![t] = h]
        /\ calledAt' = [calledAt EXCEPT ![t] = [close |-> closeCalled[h],
                                                 db |-> dbPromise[h]]]
        /\ reactions' = [reactions EXCEPT ![h] = ThenCallback(@, TxReaction(t))]
    /\ scope' = [scope EXCEPT ![t] = "queued"]
    /\ UNCHANGED <<connVars, inFlight, trError, timeoutID, armed, nTimeouts,
                   timedOut, result, bodyValue, outcome, value, reason,
                   locked, scopesOpened, bodyCalls, settles, abortBy,
                   timerAborts, expiredLive, reqs, curVars>>

\* db.transaction(storeNames, mode) opens a scope unless the connection was
\* closed, when it throws InvalidStateError.
ScopeOpens_Always(phase) == TRUE

ScopeOpens(phase) == phase # "closed"

\* The executor calls db.transaction() and fn at once: the core keeps no
\* list of open scopes and looks at no other scope before it opens this one.
ScopeWaits_ForLiveScopes(t) ==
    \E u \in Txs : u # t /\ scope[u] \in {"active", "committing", "aborting"}

ScopeWaits(t) == FALSE

\* The callback of db_.then with the opened database: the executor opens the
\* scope, installs onabort/oncomplete and runs the body to its end. The body
\* makes nT timeout() calls, issues nR requests through request(), may call
\* tr.abort(), and returns a plain value or a future (which may be the future
\* of its first request), or throws. db.transaction() on a
\* connection that was closed throws, which rejects the promise.
TxStart(t) ==
    LET h == txHandle[t] IN
    /\ h # 0
    /\ ~ScopeWaits(t)
    /\ dbPromise[h] = "resolved"
    /\ reactions[h] # <<>>
    /\ Head(reactions[h]) = TxReaction(t)
    /\ reactions' = [reactions EXCEPT ![h] = Tail(@)]
    /\ IF ~ScopeOpens(hPhase[h])
       THEN /\ scope' = [scope EXCEPT ![t] = "refused"]
            /\ SetPromise(t, Reject(NewPromise, "InvalidStateError"))
            /\ UNCHANGED <<inFlight, trError, timeoutID, armed, nTimeouts,
                           result, bodyValue, scopesOpened, bodyCalls,
                           abortBy, reqs>>
       ELSE \E nT \in 0..MaxTimeouts, ab \in BOOLEAN, nR \in 0..MaxReq,
               how \in BodyOutcomes, v \in Values :
            /\ how \in {"futRejected", "futPending", "futRequest", "throw"}
                    => v = "undefined"
            /\ how = "futRequest" => nR >= 1
            /\ reqs' = [reqs EXCEPT ![t] = [k \in 1..nR |-> NewRequest]]
            /\ scope' = [scope EXCEPT ![t] = IF ab THEN "aborting" ELSE "active"]
            /\ inFlight' = [inFlight EXCEPT ![t] = IF ab THEN 0 ELSE nR]
            /\ abortBy' = [abortBy EXCEPT ![t] = IF ab THEN "body" ELSE "none"]
            /\ trError' = [trError EXCEPT ![t] = "null"]
            /\ SetTimers(t, TimersAfterBody(how,
                    TimeoutCalls([armed |-> {}, id |-> 0, n |-> 0], nT)))
            /\ result' = [result EXCEPT ![t] = IF how = "throw" THEN "unset" ELSE how]
            /\ bodyValue' = [bodyValue EXCEPT ![t] =
                                IF how \in {"plain", "futFulfilled"} THEN v ELSE "none"]
            /\ SetPromise(t, AfterBody(how))
            /\ scopesOpened' = [scopesOpened EXCEPT ![t] = @ + ExecutorCalls.scopes]
            /\ bodyCalls' = [bodyCalls EXCEPT ![t] = @ + ExecutorCalls.bodies]
    /\ UNCHANGED <<connVars, txHandle, calledAt, timedOut, timerAborts,
                   expiredLive, curVars>>

\* db_.then(onFulfilled) with no rejection callback: the promise it returns
\* takes over the rejection of db_.
DbThenRejected_Swallowed(err) == Fulfilled("undefined")

DbThenRejected(err) == Rejected(err)

\* The callback chain of db_.then when db_ was rejected: the promise
\* transaction() returned is rejected with the reason of db_ and the executor
\* never runs.
TxOpenFailed(t) ==
    LET h == txHandle[t] IN
    /\ h # 0
    /\ dbPromise[h] = "rejected"
    /\ reactions[h] # <<>>
    /\ Head(reactions[h]) = TxReaction(t)
    /\ reactions' = [reactions EXCEPT ![h] = Tail(@)]
    /\ scope' = [scope EXCEPT ![t] = "refused"]
    /\ SetPromise(t, DbThenRejected(openError[h]))
    /\ UNCHANGED <<connVars, txHandle, calledAt, inFlight, trError, timeoutID,
                   armed, nTimeouts, timedOut, result, bodyValue,
                   scopesOpened, bodyCalls, abortBy, timerAborts, expiredLive,
                   reqs, curVars>>

\* The engine starts committing a scope that has no request left.
CommitStart(t) ==
    /\ ~MicrotaskPending
    /\ scope[t] = "active"
    /\ inFlight[t] = 0
    /\ scope' = [scope EXCEPT ![t] = "committing"]
    /\ UNCHANGED <<connVars, reactions, txHandle, calledAt, inFlight, trError,
                   timeoutID, armed, nTimeouts, timedOut, result, bodyValue,
                   outcome, value, reason, locked, scopesOpened, bodyCalls,
                   settles, abortBy, timerAborts, expiredLive, reqs, curVars>>

\* The commit fails in the engine: the scope is aborted with tr.error set.
CommitFail(t) ==
    /\ ~MicrotaskPending
    /\ scope[t] = "committing"
    /\ scope' = [scope EXCEPT ![t] = "aborting"]
    /\ trError' = [trError EXCEPT ![t] = "EngineError"]
    /\ abortBy' = [abortBy EXCEPT ![t] = "engine"]
    /\ UNCHANGED <<connVars, reactions, txHandle, calledAt, inFlight,
                   timeoutID, armed, nTimeouts, timedOut, result, bodyValue,
                   outcome, value, reason, locked, scopesOpened, bodyCalls,
                   settles, timerAborts, expiredLive, reqs, curVars>>

\* tr.oncomplete: cancelTimeout(); resolve(result).
CompleteEvent(t) ==
    /\ ~MicrotaskPending
    /\ scope[t] = "committing"
    /\ scope' = [scope EXCEPT ![t] = "completed"]
    /\ SetTimers(t, CancelTimeout(TimerState(t)))
    /\ SetPromise(t, Resolve(PromiseOf(t), result[t], bodyValue[t]))
    /\ UNCHANGED <<connVars, reactions, txHandle, calledAt, inFlight, trError,
                   timedOut, result, bodyValue, scopesOpened, bodyCalls,
                   abortBy, timerAborts, expiredLive, reqs, curVars>>

\* The callbacks db_.then holds once the abort event was handled: the handler
\* does not call transaction() again.
AfterAbort_Retry(q, t) == Append(q, TxReaction(t))

AfterAbort(q, t) == q

\* The engine fires an error event, with AbortError, at a request that was
\* in flight when its scope was aborted.
RequestAborted(t) ==
    /\ ~MicrotaskPending
    /\ scope[t] = "aborting"
    /\ Undelivered(t) # {}
    /\ LET k == NextRequest(t) IN
        /\ reqs' = [reqs EXCEPT ![t] = Deliver(@, k, "error", "AbortError")]
        /\ result' = [result EXCEPT ![t] = FollowRequest(@, k, "error")]
    /\ SetPromise(t, AfterRequestError(PromiseOf(t), "AbortError"))
    /\ UNCHANGED <<connVars, reactions, txHandle, calledAt, scope, inFlight,
                   trError, timeoutID, armed, nTimeouts, timedOut, bodyValue,
                   scopesOpened, bodyCalls, abortBy, timerAborts, expiredLive,
                   curVars>>

\* tr.onabort: cancelTimeout(); reject(timedOut ? TimeoutError : tr.error).
\* The engine fires abort once the requests in flight have had their error
\* events.
AbortEvent(t) ==
    /\ ~MicrotaskPending
    /\ scope[t] = "aborting"
    /\ Undelivered(t) = {}
    /\ scope' = [scope EXCEPT ![t] = "aborted"]
    /\ SetTimers(t, CancelTimeout(TimerState(t)))
    /\ SetPromise(t, Reject(PromiseOf(t),
                            IF timedOut[t] THEN "TimeoutError" ELSE trError[t]))
    /\ reactions' = [reactions EXCEPT ![txHandle[t]] = AfterAbort(@, t)]
    /\ UNCHANGED <<connVars, txHandle, calledAt, inFlight, trError, timedOut,
                   result, bodyValue, scopesOpened, bodyCalls, abortBy,
                   timerAborts, expiredLive, reqs, curVars>>

\* A request of the scope succeeds; the caller's callback may do nothing,
\* call timeout() again, or call tr.abort().
RequestSuccess(t) ==
    /\ ~MicrotaskPending
    /\ scope[t] = "active"
    /\ inFlight[t] > 0
    /\ \E act \in {"none", "timeout", "abort"}, res \in Values :
        /\ act = "timeout" => nTimeouts[t] < MaxTimeouts
        /\ LET k == NextRequest(t) IN
            /\ reqs' = [reqs EXCEPT ![t] = Deliver(@, k, "success", res)]
            /\ result' = [result EXCEPT ![t] = FollowRequest(@, k, "success")]
            /\ bodyValue' = [bodyValue EXCEPT ![t] =
                                IF result[t] = "futRequest" /\ k = 1 THEN res ELSE @]
        /\ scope' = [scope EXCEPT ![t] = IF act = "abort" THEN "aborting" ELSE @]
        /\ inFlight' = [inFlight EXCEPT ![t] = IF act = "abort" THEN 0 ELSE @ - 1]
        /\ abortBy' = [abortBy EXCEPT ![t] = IF act = "abort" THEN "body" ELSE @]
        /\ SetTimers(t, IF act = "timeout" THEN TimeoutCall(TimerState(t))
                        ELSE TimerState(t))
    /\ UNCHANGED <<connVars, reactions, txHandle, calledAt, trError, timedOut,
                   outcome, value, reason, locked, scopesOpened, bodyCalls,
                   settles, timerAborts, expiredLive, curVars>>

\* A request of the scope fails. If the caller intercepts the error the scope
\* goes on; otherwise the engine aborts the scope with tr.error set.
RequestError(t) ==
    /\ ~MicrotaskPending
    /\ scope[t] = "active"
    /\ inFlight[t] > 0
    /\ LET k == NextRequest(t) IN
        /\ reqs' = [reqs EXCEPT ![t] = Deliver(@, k, "error", "EngineError")]
        /\ result' = [result EXCEPT ![t] = FollowRequest(@, k, "error")]
    /\ SetPromise(t, AfterRequestError(PromiseOf(t), "EngineError"))
    /\ \E handled \in BOOLEAN :
        /\ scope' = [scope EXCEPT ![t] = IF handled THEN @ ELSE "aborting"]
        /\ inFlight' = [inFlight EXCEPT ![t] = IF handled THEN @ - 1 ELSE 0]
        /\ trError' = [trError EXCEPT ![t] = IF handled THEN @ ELSE "EngineError"]
        /\ abortBy' = [abortBy EXCEPT ![t] = IF handled THEN @ ELSE "engine"]
    /\ UNCHANGED <<connVars, reactions, txHandle, calledAt, timeoutID, armed,
                   nTimeouts, timedOut, bodyValue, scopesOpened, bodyCalls,
                   timerAborts, expiredLive, curVars>>

\* The setTimeout callback: timeoutID = undefined; timedOut = true; tr.abort().
\* abort() throws InvalidStateError unless the scope is still active; the
\* two assignments before it stand either way.
TimerFire(t) ==
    /\ ~MicrotaskPending
    /\ \E id \in armed[t] :
        armed' = [armed EXCEPT ![t] = @ \ {id}]
    /\ timeoutID' = [timeoutID EXCEPT ![t] = 0]
    /\ timedOut' = [timedOut EXCEPT ![t] = TRUE]
    /\ timerAborts' = [timerAborts EXCEPT ![t] = @ + 1]
    /\ expiredLive' = [expiredLive EXCEPT ![t] = @ \/ scope[t] \in {"active", "committing"}]
    /\ scope' = [scope EXCEPT ![t] = IF @ = "active" THEN "aborting" ELSE @]
    /\ inFlight' = [inFlight EXCEPT ![t] = IF scope[t] = "active" THEN 0 ELSE @]
    /\ abortBy' = [abortBy EXCEPT ![t] = IF scope[t] = "active" THEN "timer" ELSE @]
    /\ UNCHANGED <<connVars, reactions, txHandle, calledAt, trError,
                   nTimeouts, result, bodyValue, outcome, value, reason,
                   locked, scopesOpened, bodyCalls, settles, reqs, curVars>>

\* The future the body returned settles.
FutureSettle(t) ==
    /\ ~MicrotaskPending
    /\ result[t] = "futPending"
    /\ \E r \in {"futFulfilled", "futRejected"}, v \in Values :
        /\ r = "futRejected" => v = "undefined"
        /\ result' = [result EXCEPT ![t] = r]
        /\ bodyValue' = [bodyValue EXCEPT ![t] = IF r = "futFulfilled" THEN v ELSE "none"]
    /\ UNCHANGED <<connVars, reactions, txHandle, calledAt, scope, inFlight,
                   trError, timeoutID, armed, nTimeouts, timedOut, outcome,
                   value, reason, locked, scopesOpened, bodyCalls, settles,
                   abortBy, timerAborts, expiredLive, reqs, curVars>>

\* The returned promise, resolved with a future, takes that future's state.
Adopt(t) ==
    /\ locked[t]
    /\ outcome[t] = "pending"
    /\ result[t] \in {"futFulfilled", "futRejected"}
    /\ SetPromise(t, IF result[t] = "futFulfilled" THEN Fulfilled(bodyValue[t])
                     ELSE Rejected("futureError"))
    /\ UNCHANGED <<connVars, reactions, txHandle, calledAt, scope, inFlight,
                   trError, timeoutID, armed, nTimeouts, timedOut, result,
                   bodyValue, scopesOpened, bodyCalls, abortBy, timerAborts,
                   expiredLive, reqs, curVars>>

\* ----------------------------------------------------------------- cursors
Keys == 1..MaxKey

\* The value stored under primary key k.
ValueOf(k) == k + MaxKey

\* IDBKeyRange.bound(lower, upper); the range that spans Keys stands for an
\* omitted range as well.
Ranges == {r \in [lower : Keys, upper : Keys] : r.lower <= r.upper}

InRange(k, r) == r.lower <= k /\ k <= r.upper

RECURSIVE Ascending(_)
Ascending(S) ==
    IF S = {} THEN <<>>
    ELSE LET m == CHOOSE k \in S : \A j \in S : k <= j
         IN <<m>> \o Ascending(S \ {m})

Reverse(q) == [i \in 1..Len(q) |-> q[Len(q) + 1 - i]]

\* The positions the engine visits for openCursor(range, direction).
EngineOrder(S, r, dir) ==
    LET asc == Ascending({k \in S : InRange(k, r)})
    IN IF dir = "prev" THEN Reverse(asc) ELSE asc

\* container.openCursor(range, direction): the direction handed to the engine.
OpenDirection_Dropped(direction) == "next"

OpenDirection(direction) == direction

\* req.result of a cursor request: the cursor at a record, or null once the
\* range is exhausted. A key cursor carries no value.
NullCursor == [key |-> 0, primaryKey |-> 0, value |-> 0]

CursorAt(k, kind) ==
    [key |-> k, primaryKey |-> k,
     value |-> IF kind \in {"keyCursor", "getAllKeys"} THEN 0 ELSE ValueOf(k)]

\* The callbacks a caller registers, and the ones getAll registers itself.
Handlers == {"f", "g"}

EmptyBuilder ==
    [callbackFn_ |-> "undefined", completeFn_ |-> "undefined",
     errorFn_ |-> "undefined"]

\* next(callback) { this.callbackFn_ = callback; return this; }
next_KeepsFirst(b, callback) ==
    IF b.callbackFn_ = "undefined" THEN [b EXCEPT !.callbackFn_ = callback] ELSE b

next(b, callback) == [b EXCEPT !.callbackFn_ = callback]

\* complete(callback) { this.completeFn_ = callback; return this; }
complete(b, callback) == [b EXCEPT !.completeFn_ = callback]

\* catch(callback) { this.errorFn_ = callback; return this; }
catch(b, callback) == [b EXCEPT !.errorFn_ = callback]

Methods == {"next", "complete", "catch"}

CallMethod(b, m, callback) ==
    CASE m = "next" -> next(b, callback)
      [] m = "complete" -> complete(b, callback)
      [] m = "catch" -> catch(b, callback)

Invocation(fn, h, key, err) == [fn |-> fn, h |-> h, key |-> key, err |-> err]

\* cursorReq.onsuccess: the callbacks it invokes. It never calls continue().
OnSuccess_CompleteAlways(b, cursor) ==
    (IF cursor # NullCursor /\ b.callbackFn_ # "undefined"
     THEN <<Invocation("next", b.callbackFn_, cursor.key, "none")>> ELSE <<>>)
    \o (IF b.completeFn_ # "undefined"
        THEN <<Invocation("complete", b.completeFn_, 0, "none")>> ELSE <<>>)

OnSuccess(b, cursor) ==
    IF cursor # NullCursor
    THEN IF b.callbackFn_ # "undefined"
         THEN <<Invocation("next", b.callbackFn_, cursor.key, "none")>> ELSE <<>>
    ELSE IF b.completeFn_ # "undefined"
         THEN <<Invocation("complete", b.completeFn_, 0, "none")>> ELSE <<>>

\* cursorReq.onerror: if (result.errorFn_) { result.errorFn_(cursorReq.error); }
OnError_ThenComplete(b, err) ==
    (IF b.errorFn_ # "undefined"
     THEN <<Invocation("catch", b.errorFn_, 0, err)>> ELSE <<>>)
    \o (IF b.completeFn_ # "undefined"
        THEN <<Invocation("complete", b.completeFn_, 0, "none")>> ELSE <<>>)

OnError(b, err) ==
    IF b.errorFn_ # "undefined"
    THEN <<Invocation("catch", b.errorFn_, 0, err)>> ELSE <<>>

\* Whether onsuccess itself asks the engine for the next position.
DispatchContinues_Always == TRUE

DispatchContinues == FALSE

\* cursor(container, range, direction) / keyCursor(...): cursorImpl over the
\* request openCursor / openKeyCursor returned.
CursorCall ==
    /\ curKind = "none"
    /\ \E kind \in {"cursor", "keyCursor"}, r \in Ranges, dir \in {"next", "prev"} :
        /\ curKind' = kind
        /\ curRange' = r
        /\ curDir' = dir
    /\ builder' = EmptyBuilder
    /\ cursorReq' = "pending"
    /\ UNCHANGED <<connVars, reactions, txVars, store, lastReg, regs, delivered,
                   continues, calls, limit, getAllResult, getAllPromise>>

\* The caller calls next / complete / catch on the builder.
Register ==
    /\ curKind \in {"cursor", "keyCursor"}
    /\ regs < MaxRegs
    /\ \E m \in Methods, callback \in Handlers :
        /\ builder' = CallMethod(builder, m, callback)
        /\ lastReg' = [lastReg EXCEPT ![m] = callback]
    /\ regs' = regs + 1
    /\ UNCHANGED <<connVars, reactions, txVars, store, curKind, curRange,
                   curDir, cursorReq, delivered, continues, calls, limit,
                   getAllResult, getAllPromise>>

\* limit given to getAll: a number, or NoLimit when the argument is omitted.
NoLimit == 0 - 1

Limits == (0..MaxLimit) \cup {NoLimit}

\* if (limit && (result.length === limit))
LimitReached(lim, len) == lim # NoLimit /\ lim # 0 /\ len = lim

\* The item getAll (cur.value) and getAllKeys (cur.primaryKey) collect.
Collected(kind, cursor) ==
    IF kind = "getAllKeys" THEN cursor.primaryKey ELSE cursor.value

\* getAll's next callback: result.push(item); then resolve(result) when the
\* limit is reached, cur.continue() otherwise.
GetAllNext_ContinuesAfterLimit(st, item, lim) ==
    LET r == Append(st.result, item) IN
    [result |-> r, continue |-> TRUE,
     promise |-> IF LimitReached(lim, Len(r)) THEN Resolve(st.promise, "plain", r)
                 ELSE st.promise]

GetAllNext(st, item, lim) ==
    LET r == Append(st.result, item) IN
    IF LimitReached(lim, Len(r))
    THEN [result |-> r, promise |-> Resolve(st.promise, "plain", r),
          continue |-> FALSE]
    ELSE [result |-> r, promise |-> st.promise, continue |-> TRUE]

\* getAll's complete callback: resolve(result).
GetAllComplete(st) == [st EXCEPT !.promise = Resolve(@, "plain", st.result)]

\* getAll's catch callback: reject(error).
GetAllCatch_Resolves(st, error) ==
    [st EXCEPT !.promise = Resolve(@, "plain", st.result)]

GetAllCatch(st, error) == [st EXCEPT !.promise = Reject(@, error)]

GetAllState ==
    [result |-> getAllResult, promise |-> getAllPromise, continue |-> FALSE]

\* _getAll / _getAllKeys: a new promise whose executor opens a cursor (a key
\* cursor for getAllKeys) and registers next, complete and catch on it.
GetAllCall ==
    /\ curKind = "none"
    /\ \E kind \in {"getAll", "getAllKeys"}, r \in Ranges, dir \in {"next", "prev"},
          lim \in Limits :
        /\ curKind' = kind
        /\ curRange' = r
        /\ curDir' = dir
        /\ limit' = lim
    /\ builder' = catch(complete(next(EmptyBuilder, "getAll"), "getAll"), "getAll")
    /\ cursorReq' = "pending"
    /\ getAllResult' = <<>>
    /\ getAllPromise' = NewPromise
    /\ UNCHANGED <<connVars, reactions, txVars, store, lastReg, regs, delivered,
                   continues, calls>>

\* The engine fires success at the cursor request: the cursor is at the next
\* record of the range, or null when there is none. A caller's next callback
\* calls cursor.continue() or leaves the cursor where it is.
CursorSuccess ==
    /\ cursorReq = "pending"
    /\ LET order == EngineOrder(store, curRange, OpenDirection(curDir))
           cursor == IF delivered < Len(order)
                     THEN CursorAt(order[delivered + 1], curKind) ELSE NullCursor
           inv == OnSuccess(builder, cursor)
           mine == \E i \in 1..Len(inv) : inv[i].h = "getAll" /\ inv[i].fn = "next"
           done == \E i \in 1..Len(inv) : inv[i].h = "getAll" /\ inv[i].fn = "complete"
           st == IF mine THEN GetAllNext(GetAllState, Collected(curKind, cursor), limit)
                 ELSE IF done THEN GetAllComplete(GetAllState)
                 ELSE GetAllState
       IN /\ calls' = calls \o inv
          /\ delivered' = IF cursor # NullCursor THEN delivered + 1 ELSE delivered
          /\ getAllResult' = st.result
          /\ getAllPromise' = st.promise
          /\ \E cont \in BOOLEAN :
              /\ cont => \E i \in 1..Len(inv) : inv[i].fn = "next" /\ inv[i].h # "getAll"
              /\ LET go == cursor # NullCursor
                            /\ (cont \/ st.continue \/ DispatchContinues)
                 IN /\ cursorReq' = IF cursor = NullCursor THEN "exhausted"
                                    ELSE IF go THEN "pending" ELSE "ready"
                    /\ continues' = continues + (IF go THEN 1 ELSE 0)
    /\ UNCHANGED <<connVars, reactions, txVars, store, curKind, curRange,
                   curDir, builder, lastReg, regs, limit>>

\* A caller that kept the cursor a next callback received calls continue()
\* on it later in the scope.
ContinueLater ==
    /\ cursorReq = "ready"
    /\ \E i \in 1..Len(calls) : calls[i].fn = "next" /\ calls[i].h # "getAll"
    /\ cursorReq' = "pending"
    /\ continues' = continues + 1
    /\ UNCHANGED <<connVars, reactions, txVars, store, curKind, curRange,
                   curDir, builder, lastReg, regs, delivered, calls, limit,
                   getAllResult, getAllPromise>>

\* The engine fires error at the cursor request: the request failed, or its
\* scope was aborted while it was in flight. The cursor delivers nothing
\* after that.
CursorError ==
    /\ cursorReq = "pending"
    /\ \E err \in {"EngineError", "AbortError"} :
        LET inv == OnError(builder, err)
            mine == \E i \in 1..Len(inv) : inv[i].h = "getAll" /\ inv[i].fn = "catch"
            st == IF mine THEN GetAllCatch(GetAllState, err) ELSE GetAllState
        IN /\ calls' = calls \o inv
           /\ getAllPromise' = st.promise
    /\ cursorReq' = "failed"
    /\ UNCHANGED <<connVars, reactions, txVars, store, curKind, curRange,
                   curDir, builder, lastReg, regs, delivered, continues, limit,
                   getAllResult>>

\* ------------------------------------------------------------ compareKeys
\* Valid keys of three of the engine's key types; the keys of the object store
\* are the numbers among them.
KeyTypes == {"number", "date", "string"}

ValidKeys == [type : KeyTypes, v : Keys]

NumberKey(k) == [type |-> "number", v |-> k]

\* The engine's key order puts numbers before dates before strings.
TypeRank(type) ==
    CASE type = "number" -> 1
      [] type = "date" -> 2
      [] type = "string" -> 3

\* indexedDB.cmp(a, b): -1, 0 or 1.
EngineCmp(a, b) ==
    IF a.type # b.type
    THEN IF TypeRank(a.type) < TypeRank(b.type) THEN 0 - 1 ELSE 1
    ELSE IF a.v < b.v THEN 0 - 1
    ELSE IF a.v > b.v THEN 1
    ELSE 0

\* compareKeys(first, second): return indexedDB.cmp(first, second).
compareKeys_Swapped(first, second) == EngineCmp(second, first)

compareKeys(first, second) == EngineCmp(first, second)

\* ------------------------------------------------------------- initial state
\* No cursor was opened.
NoCursor ==
    /\ curKind = "none"
    /\ curRange = [lower |-> 1, upper |-> MaxKey]
    /\ curDir = "next"
    /\ builder = EmptyBuilder
    /\ lastReg = [m \in Methods |-> "undefined"]
    /\ regs = 0
    /\ cursorReq = "none"
    /\ delivered = 0
    /\ continues = 0
    /\ calls = <<>>
    /\ limit = NoLimit
    /\ getAllResult = <<>>
    /\ getAllPromise = NewPromise

InitTxVars ==
    /\ txHandle = [t \in Txs |-> 0]
    /\ calledAt = [t \in Txs |-> [close |-> FALSE, db |-> "none"]]
    /\ scope = [t \in Txs |-> "idle"]
    /\ inFlight = [t \in Txs |-> 0]
    /\ trError = [t \in Txs |-> "null"]
    /\ timeoutID = [t \in Txs |-> 0]
    /\ armed = [t \in Txs |-> {}]
    /\ nTimeouts = [t \in Txs |-> 0]
    /\ timedOut = [t \in Txs |-> FALSE]
    /\ result = [t \in Txs |-> "unset"]
    /\ bodyValue = [t \in Txs |-> "none"]
    /\ outcome = [t \in Txs |-> "pending"]
    /\ value = [t \in Txs |-> "none"]
    /\ reason = [t \in Txs |-> "none"]
    /\ locked = [t \in Txs |-> FALSE]
    /\ scopesOpened = [t \in Txs |-> 0]
    /\ bodyCalls = [t \in Txs |-> 0]
    /\ settles = [t \in Txs |-> 0]
    /\ abortBy = [t \in Txs |-> "none"]
    /\ timerAborts = [t \in Txs |-> 0]
    /\ expiredLive = [t \in Txs |-> FALSE]
    /\ reqs = [t \in Txs |-> <<>>]

\* A handle that opened a fresh database with one migration.
OpenHandle ==
    /\ diskVersion = 1
    /\ diskApplied = <<0>>
    /\ hPhase = [h \in Handles |-> IF h = 1 THEN "open" ELSE "none"]
    /\ hMode = [h \in Handles |-> "migrations"]
    /\ hLen = [h \in Handles |-> IF h = 1 THEN 1 ELSE 0]
    /\ hTarget = [h \in Handles |-> IF h = 1 THEN 1 ELSE 0]
    /\ dbPromise = [h \in Handles |-> IF h = 1 THEN "resolved" ELSE "pending"]
    /\ openError = [h \in Handles |-> "none"]
    /\ blockedSig = [h \in Handles |-> "pending"]
    /\ outdatedSig = [h \in Handles |-> "pending"]
    /\ closedSig = [h \in Handles |-> "pending"]
    /\ reactions = [h \in Handles |-> <<>>]
    /\ ran = [h \in Handles |-> IF h = 1 THEN <<0>> ELSE <<>>]
    /\ upgradeCalls = [h \in Handles |-> IF h = 1 THEN 1 ELSE 0]
    /\ upgradeOld = [h \in Handles |-> IF h = 1 THEN 0 ELSE -1]
    /\ upThrew = [h \in Handles |-> FALSE]
    /\ sawVersion = [h \in Handles |-> IF h = 1 THEN 0 ELSE -1]
    /\ closeCalled = [h \in Handles |-> FALSE]
    /\ dbCloseCalls = [h \in Handles |-> 0]
    /\ closeEvents = [h \in Handles |-> 0]
    /\ params = [h \in Handles |-> IF h = 1 THEN <<"array", "undefined">>
                                            ELSE NoParameters]

\* The state every transaction() call on an open handle starts from.
InitTx ==
    /\ OpenHandle
    /\ InitTxVars
    /\ store = {}
    /\ NoCursor

NextTx ==
    \E t \in SingleTxs :
        \/ TxCall(t)
        \/ TxStart(t)
        \/ CommitStart(t)
        \/ CommitFail(t)
        \/ CompleteEvent(t)
        \/ AbortEvent(t)
        \/ RequestSuccess(t)
        \/ RequestError(t)
        \/ RequestAborted(t)
        \/ TimerFire(t)
        \/ FutureSettle(t)
        \/ Adopt(t)

\* Transactions on an open handle.
SpecTx == InitTx /\ [][NextTx]_vars

\* The engine fires the events it has queued for an aborted scope, and the
\* job queue runs the promise reactions that are due.
FairTx ==
    \A t \in Txs :
        /\ WF_vars(TxStart(t))
        /\ WF_vars(RequestAborted(t))
        /\ WF_vars(AbortEvent(t))
        /\ WF_vars(Adopt(t))

SpecTxFair == SpecTx /\ FairTx

\* An object store holding any records, in an active scope of an open handle.
InitCursor ==
    /\ OpenHandle
    /\ InitTxVars
    /\ store \in SUBSET Keys
    /\ NoCursor

NextCursor ==
    \/ CursorCall
    \/ Register
    \/ GetAllCall
    \/ CursorSuccess
    \/ ContinueLater
    \/ CursorError

\* One cursor iteration, or one getAll / getAllKeys call, over the store.
SpecCursor == InitCursor /\ [][NextCursor]_vars

\* No database on disk, no handle constructed, no transaction requested.
Init ==
    /\ diskVersion = 0
    /\ diskApplied = <<>>
    /\ hPhase = [h \in Handles |-> "none"]
    /\ hMode = [h \in Handles |-> "migrations"]
    /\ hLen = [h \in Handles |-> 0]
    /\ hTarget = [h \in Handles |-> 0]
    /\ dbPromise = [h \in Handles |-> "pending"]
    /\ openError = [h \in Handles |-> "none"]
    /\ blockedSig = [h \in Handles |-> "pending"]
    /\ outdatedSig = [h \in Handles |-> "pending"]
    /\ closedSig = [h \in Handles |-> "pending"]
    /\ reactions = [h \in Handles |-> <<>>]
    /\ ran = [h \in Handles |-> <<>>]
    /\ upgradeCalls = [h \in Handles |-> 0]
    /\ upgradeOld = [h \in Handles |-> -1]
    /\ upThrew = [h \in Handles |-> FALSE]
    /\ sawVersion = [h \in Handles |-> -1]
    /\ closeCalled = [h \in Handles |-> FALSE]
    /\ dbCloseCalls = [h \in Handles |-> 0]
    /\ closeEvents = [h \in Handles |-> 0]
    /\ params = [h \in Handles |-> NoParameters]
    /\ InitTxVars
    /\ store = {}
    /\ NoCursor

Next ==
    \E h \in Handles :
        \/ Construct(h)
        \/ EngineOpen(h)
        \/ BlockedEvent(h)
        \/ UpgradeNeeded(h)
        \/ UpgradeRequestError(h)
        \/ UpgradeFinish(h)
        \/ CloseCall(h)
        \/ CloseRun(h)
        \/ CloseIgnored(h)
        \/ ExternalClose(h)

\* Opening, upgrading and closing handles on one database name.
Spec == Init /\ [][Next]_vars

\* Handles and the transaction() calls made on them, from a fresh database,
\* up to the turn in which a call's db_ callback runs; the scopes that turn
\* opens are followed by SpecTx.
NextOpenTx ==
    \/ Next
    \/ \E t \in SingleTxs :
        \/ TxCall(t)
        \/ TxStart(t)
        \/ TxOpenFailed(t)

SpecOpenTx == Init /\ [][NextOpenTx]_vars

\* The engine delivers the events it has pending and the host runs the
\* promise callbacks that are due; what the callers do (construct, close(),
\* transaction()) and whether the engine closes a connection is up to them.
FairOpenTx ==
    /\ \A h \in Handles :
          /\ WF_vars(EngineOpen(h)) /\ WF_vars(BlockedEvent(h))
          /\ WF_vars(UpgradeNeeded(h)) /\ WF_vars(UpgradeFinish(h))
          /\ WF_vars(CloseRun(h)) /\ WF_vars(CloseIgnored(h))
    /\ \A t \in Txs : WF_vars(TxStart(t)) /\ WF_vars(TxOpenFailed(t))

SpecOpenTxFair == SpecOpenTx /\ FairOpenTx

\* The same against an engine whose upgrade event may report any oldVersion.
NextReported ==
    \/ \E h \in Handles :
        \/ Construct(h)
        \/ EngineOpen(h)
        \/ BlockedEvent(h)
        \/ UpgradeReported(h)
        \/ UpgradeFinish(h)
        \/ CloseCall(h)
        \/ CloseRun(h)
        \/ CloseIgnored(h)
    \/ \E t \in SingleTxs :
        \/ TxCall(t)
        \/ TxStart(t)
        \/ TxOpenFailed(t)

SpecReported == Init /\ [][NextReported]_vars

\* One handle from its construction on, and the transaction() calls made on
\* it side by side, up to the turn in which each call's db_ callback runs.
NextQueue ==
    \/ Construct(1)
    \/ EngineOpen(1)
    \/ UpgradeNeeded(1)
    \/ UpgradeFinish(1)
    \/ CloseCall(1)
    \/ CloseRun(1)
    \/ CloseIgnored(1)
    \/ \E t \in Txs :
        \/ TxCall(t)
        \/ TxStart(t)
        \/ TxOpenFailed(t)

SpecQueue == Init /\ [][NextQueue]_vars

\* Transactions requested side by side on an open handle: the scopes, their
\* requests and timers, and the engine's events.
NextPair ==
    \E t \in Txs :
        \/ TxCall(t)
        \/ TxStart(t)
        \/ CommitStart(t)
        \/ CompleteEvent(t)
        \/ AbortEvent(t)
        \/ RequestSuccess(t)
        \/ RequestAborted(t)
        \/ TimerFire(t)
        \/ Adopt(t)

SpecPair == InitTx /\ [][NextPair]_vars

\* ----------------------------------------------------------------- claims
Started(t) == scope[t] \in {"active", "committing", "aborting", "completed", "aborted"}

\* C1 (as stated): the result future of a transaction() call is fulfilled if
\* and only if the engine fired the complete event of the call's scope (read
\* once the promise jobs of that event have run and the body's own future,
\* if it returned one, has settled).
C1_FulfilledIffCommitted ==
    \A t \in Txs :
        /\ outcome[t] = "fulfilled" => scope[t] = "completed"
        /\ (scope[t] = "completed" /\ result[t] # "futPending" /\ ~MicrotaskPending) =>
              outcome[t] = "fulfilled"

\* C1 (amended): the result future is fulfilled only once the complete event
\* of the scope was delivered, never before it. When that event is delivered
\* the future is fulfilled if the body returned a plain value or a future
\* that fulfils, it is rejected if the body threw or its future rejects, and
\* it stays pending while the body's future is pending.
C1_FulfilledOnlyAtCommit ==
    \A t \in Txs :
        /\ outcome[t] = "fulfilled" => scope[t] = "completed"
        /\ (scope[t] = "completed" /\ result[t] = "plain") => outcome[t] = "fulfilled"
        /\ (scope[t] = "completed" /\ ~MicrotaskPending) =>
              outcome[t] = (CASE result[t] \in {"plain", "futFulfilled"} -> "fulfilled"
                              [] result[t] \in {"unset", "futRejected"} -> "rejected"
                              [] OTHER -> "pending")

\* A scope committed after its body had returned an already settled future,
\* and the result future is fulfilled.
C1_Witness ==
    \E t \in Txs : /\ scope[t] = "completed" /\ result[t] = "futFulfilled"
                   /\ outcome[t] = "fulfilled"

\* C2: at most one deadline timer is armed for a scope at any time (a
\* timeout() call cancels the timer armed by the call before it).
C2_AtMostOneTimer ==
    \A t \in Txs : Cardinality(armed[t]) <= 1

\* C3: once the scope has delivered its commit or abort event, no deadline
\* timer of the scope remains armed.
C3_NoTimerAfterTerminal ==
    \A t \in Txs : Terminal(t) => armed[t] = {}

\* C4: the rejection reason the abort handler gives names what aborted the
\* scope first: TimeoutError exactly when a timer's expiry aborted it, tr.error
\* of the explicit abort (null) or of the engine failure otherwise.
C4_ReasonNamesFirstSource ==
    \A t \in Txs :
        (scope[t] = "aborted" /\ reason[t] \in {"TimeoutError", "null", "EngineError"}) =>
            reason[t] = (CASE abortBy[t] = "timer" -> "TimeoutError"
                           [] abortBy[t] = "body" -> "null"
                           [] OTHER -> "EngineError")

\* C5: if a deadline expired while the scope had neither committed nor
\* aborted (and the body had returned), the result future is never fulfilled:
\* it is rejected, with TimeoutError, by the time the scope has ended.
C5_OverrunRejectsTimedOut ==
    \A t \in Txs :
        (expiredLive[t] /\ result[t] # "unset") =>
            /\ outcome[t] # "fulfilled"
            /\ outcome[t] = "rejected" => reason[t] = "TimeoutError"
            /\ (Terminal(t) /\ result[t] # "futPending" /\ ~MicrotaskPending) =>
                  outcome[t] = "rejected"

\* C6: after the scope's commit or abort event no timer callback of the scope
\* requests an abort any more (every timer was disarmed at that event).
C6_NoAbortRequestAfterTerminal ==
    [][\A t \in Txs : Terminal(t) => timerAborts'[t] = timerAborts[t]]_vars

\* C7: a transaction() call opens one engine scope and invokes the body once,
\* is not started again after an abort, and its result future changes state
\* at most once: an aborted call ends rejected, a fulfilled one never was
\* rejected.
C7_OneScopeOneBodyOneSettle ==
    \A t \in Txs :
        /\ scopesOpened[t] <= 1 /\ bodyCalls[t] <= 1 /\ settles[t] <= 1
        /\ Started(t) => (scopesOpened[t] = 1 /\ bodyCalls[t] = 1)
        /\ scope[t] = "aborted" => (outcome[t] = "rejected" /\ settles[t] = 1)
        /\ outcome[t] = "pending" => settles[t] = 0

\* An aborted call: one scope, one body invocation, rejected once.
C7_Witness ==
    \E t \in Txs : /\ scope[t] = "aborted" /\ abortBy[t] = "engine"
                   /\ scopesOpened[t] = 1 /\ bodyCalls[t] = 1 /\ settles[t] = 1

\* C8 (as stated): an open of a migration list of length N at on-disk version
\* v < N runs exactly the migrations v..N-1, in one upgrade event.
C8_RunsAllPending ==
    \A h \in Handles :
        (hMode[h] = "migrations" /\ upgradeCalls[h] > 0) =>
            /\ upgradeCalls[h] = 1
            /\ ran[h] = Range(upgradeOld[h], hLen[h] - 1)

\* C8 (amended): the migrations run in the one upgrade event are v, v+1, ...
\* in ascending order, each once, none below v, ending with N-1 or with the
\* first migration that throws.
C8_RunsPendingUntilThrow ==
    \A h \in Handles :
        (hMode[h] = "migrations" /\ upgradeCalls[h] > 0) =>
            /\ upgradeCalls[h] = 1
            /\ 0 <= upgradeOld[h] /\ upgradeOld[h] < hLen[h]
            /\ Len(ran[h]) >= 1
            /\ ran[h] = Range(upgradeOld[h], upgradeOld[h] + Len(ran[h]) - 1)
            /\ ran[h][Len(ran[h])] <= hLen[h] - 1
            /\ ran[h][Len(ran[h])] < hLen[h] - 1 => upThrew[h]
            /\ ~upThrew[h] => ran[h] = Range(upgradeOld[h], hLen[h] - 1)

\* A database at version 1 was opened with two migrations: only migration 1
\* ran, and the open succeeded.
C8_Witness ==
    \E h \in Handles : /\ hMode[h] = "migrations" /\ hLen[h] = 2
                       /\ upgradeOld[h] = 1 /\ ran[h] = <<1>>
                       /\ hPhase[h] = "open"

\* C9: while only migration lists upgraded the database, the committed
\* version v stands for migrations 0..v-1 applied in order, each once; every
\* upgrade starts at the on-disk version and starts migration i only after
\* all of [on-disk, i) in the same upgrade.
C9_DiskReflectsContiguousMigrations ==
    /\ (\A i \in DOMAIN diskApplied : diskApplied[i] # Custom) =>
           diskApplied = Range(0, diskVersion - 1)
    /\ \A h \in Handles :
        hMode[h] = "migrations" =>
            /\ \A i \in DOMAIN ran[h] : ran[h][i] = upgradeOld[h] + i - 1
            /\ hPhase[h] = "upgrading" => upgradeOld[h] = diskVersion
            /\ ran[h] # <<>> => upgradeOld[h] >= 0

\* An upgrade was rolled back because a migration threw after another had
\* run, and a later open brought the database to version 2.
C9_Witness ==
    /\ diskVersion = 2 /\ diskApplied = <<0, 1>>
    /\ \E h \in Handles : /\ hMode[h] = "migrations" /\ hPhase[h] = "failed"
                          /\ upThrew[h] /\ Len(ran[h]) = 2

\* C10 (as stated): an open whose target version equals the on-disk version
\* runs no migration, does not call the upgrade routine, and succeeds.
C10_SameVersionOpens ==
    \A h \in Handles :
        (hPhase[h] # "none" /\ sawVersion[h] = hLen[h]) =>
            /\ upgradeCalls[h] = 0 /\ ran[h] = <<>>
            /\ hPhase[h] \in {"open", "closed"} /\ dbPromise[h] = "resolved"

\* C10 for target versions of at least 1, that is for a database that exists
\* (holds; target 0 is the case in which the open never settles).
C10_SameVersionOpensExisting ==
    \A h \in Handles :
        (hPhase[h] # "none" /\ sawVersion[h] = hLen[h] /\ hLen[h] >= 1) =>
            /\ upgradeCalls[h] = 0 /\ ran[h] = <<>>
            /\ hPhase[h] \in {"open", "closed"} /\ dbPromise[h] = "resolved"

\* A second handle opened the database at the version the first one had
\* migrated it to.
C10_Witness ==
    \E h \in Handles : /\ sawVersion[h] = 2 /\ hLen[h] = 2 /\ hMode[h] = "migrations"
                       /\ hPhase[h] = "open" /\ upgradeCalls[h] = 0

\* C11: with a migration list, an upgrade event whose oldVersion is outside
\* [0, target) runs no migration and makes the upgrade routine throw a
\* VersionError; the open fails (db_ is never resolved, the handle is never
\* open), and transaction() calls on the handle open no scope, run no body
\* and end rejected.
C11_VersionMismatchFailsOpen ==
    /\ \A mv \in ReportedVersions, version \in 0..MaxN, failAt \in 0..NoThrow :
          (mv < 0 \/ mv >= version) =>
              UpgradeMigrations(mv, version, failAt) =
                  [ran |-> <<>>, threw |-> TRUE, error |-> "VersionError"]
    /\ \A h \in Handles :
          (/\ hMode[h] = "migrations" /\ upgradeCalls[h] > 0
           /\ (upgradeOld[h] < 0 \/ upgradeOld[h] >= hTarget[h])) =>
              /\ ran[h] = <<>> /\ upThrew[h]
              /\ hPhase[h] \in {"upgrading", "failed"}
              /\ dbPromise[h] # "resolved"
              /\ hPhase[h] = "failed" => dbPromise[h] = "rejected"
              /\ \A t \in Txs :
                    txHandle[t] = h =>
                        /\ scopesOpened[t] = 0 /\ bodyCalls[t] = 0
                        /\ outcome[t] # "fulfilled"
                        /\ scope[t] \in {"queued", "refused"}
                        /\ scope[t] = "refused" => outcome[t] = "rejected"

\* The engine reported an oldVersion above the length of the migration list:
\* the open failed and a transaction() call on the handle was rejected.
C11_Witness ==
    \E h \in Handles, t \in Txs :
        /\ hMode[h] = "migrations" /\ upgradeOld[h] >= hTarget[h]
        /\ upgradeCalls[h] = 1 /\ hPhase[h] = "failed"
        /\ txHandle[t] = h /\ scope[t] = "refused" /\ outcome[t] = "rejected"

\* C12: an open whose target version is below the on-disk version fails with
\* the engine's error: no upgrade routine and no migration runs, db_ is
\* rejected with the VersionError the engine reported, and the step that
\* fails the open leaves the database as it was.
C12_LowerTargetFails ==
    /\ [](\A h \in Handles :
            (hPhase[h] \notin {"none", "requested"} /\ sawVersion[h] > hTarget[h]) =>
                /\ hPhase[h] = "failed" /\ dbPromise[h] = "rejected"
                /\ openError[h] = "VersionError"
                /\ upgradeCalls[h] = 0 /\ ran[h] = <<>>)
    /\ [][\A h \in Handles :
            (hPhase[h] = "requested" /\ hPhase'[h] = "failed") =>
                (diskVersion' = diskVersion /\ diskApplied' = diskApplied)]_vars

\* C12 for target versions of at least 1 (holds; with target 0 the open
\* request is never made and db_ never settles).
C12_LowerTargetFailsExisting ==
    /\ [](\A h \in Handles :
            (/\ hPhase[h] \notin {"none", "requested"}
             /\ sawVersion[h] > hTarget[h] /\ hTarget[h] >= 1) =>
                /\ hPhase[h] = "failed" /\ dbPromise[h] = "rejected"
                /\ openError[h] = "VersionError"
                /\ upgradeCalls[h] = 0 /\ ran[h] = <<>>)
    /\ [][\A h \in Handles :
            (hPhase[h] = "requested" /\ hPhase'[h] = "failed") =>
                (diskVersion' = diskVersion /\ diskApplied' = diskApplied)]_vars

\* A handle asked for version 1 of a database that is at version 2.
C12_Witness ==
    \E h \in Handles : /\ hTarget[h] = 1 /\ sawVersion[h] = 2
                       /\ hPhase[h] = "failed" /\ openError[h] = "VersionError"

\* C13 (as stated): when B asks for a higher version than the one A has open,
\* A's outdated signal and B's blocked signal resolve, B's upgrade does not
\* run and B's opened signal stays pending while A is open.
C13_BlockedAndOutdated ==
    \A b \in Handles :
        /\ hPhase[b] \in {"versionchange", "waiting"} =>
              (opened(b) = "pending" /\ upgradeCalls[b] = 0)
        /\ hPhase[b] = "upgrading" => ~\E a \in Handles : a # b /\ ConnectionLive(a)
        /\ \A a \in Handles :
              (a # b /\ hPhase[a] = "open" /\ hPhase[b] \in {"versionchange", "waiting"})
                  => outdated(a) = "resolved"
        /\ (upgradeCalls[b] > 0 /\ \E a \in Handles : a # b /\ outdated(a) = "resolved")
              => blocked(b) = "resolved"

\* C13 (amended): A's outdated signal resolves; B's upgrade does not run and
\* B's opened signal stays pending while A is open, and while an outdated A
\* stays open some newer handle is still waiting; B's blocked signal resolves
\* when A is still open once it has handled the version change, and only then.
C13_OutdatedThenBlockedWhileOpen ==
    \A b \in Handles :
        /\ hPhase[b] \in {"versionchange", "waiting"} =>
              (opened(b) = "pending" /\ upgradeCalls[b] = 0)
        /\ hPhase[b] = "upgrading" => ~\E a \in Handles : a # b /\ ConnectionLive(a)
        /\ \A a \in Handles :
              (a # b /\ hPhase[a] = "open" /\ hPhase[b] \in {"versionchange", "waiting"})
                  => outdated(a) = "resolved"
        /\ (hPhase[b] = "open" /\ outdated(b) = "resolved") =>
              \E c \in Handles : /\ c # b /\ hPhase[c] \in {"versionchange", "waiting"}
                                 /\ opened(c) = "pending"
        /\ hPhase[b] = "waiting" => blocked(b) = "resolved"
        /\ blocked(b) = "resolved" =>
              \E a \in Handles : a # b /\ outdated(a) = "resolved"

\* B was blocked by A, A closed, and B upgraded the database and opened.
C13_Witness ==
    \E a, b \in Handles :
        /\ a # b /\ hPhase[a] = "closed" /\ outdated(a) = "resolved"
        /\ blocked(b) = "resolved" /\ hPhase[b] = "open" /\ upgradeCalls[b] = 1
        /\ opened(b) = "resolved"

\* C14: the opened signal of a handle resolves only if its connection was
\* opened with all upgrades applied: wherever opened has resolved, db_ was
\* resolved with the database, and the opened signal of a handle whose open
\* failed stays pending.
C14_OpenedOnlyOnSuccess ==
    \A h \in Handles :
        /\ opened(h) = "resolved" =>
              (dbPromise[h] = "resolved" /\ hPhase[h] \in {"open", "closed"})
        /\ hPhase[h] = "failed" => opened(h) = "pending"

\* C15: the closed signal resolves exactly when the engine has closed the
\* connection itself, which happens at most once, and a db.close() the
\* caller's close() makes never resolves it, in any order of close() and
\* engine events.
C15_ClosedOnlyExternally ==
    /\ [](\A h \in Handles :
            /\ closeEvents[h] <= 1
            /\ closed(h) = "resolved" <=> closeEvents[h] = 1)
    /\ [][\A h \in Handles :
            dbCloseCalls'[h] # dbCloseCalls[h] => closedSig'[h] = closedSig[h]]_vars

\* One connection was closed by the engine and then by the caller's close(),
\* another by the caller's close() alone.
C15_Witness ==
    \E h, g \in Handles :
        /\ closeEvents[h] = 1 /\ dbCloseCalls[h] = 1 /\ closed(h) = "resolved"
        /\ closeEvents[g] = 0 /\ dbCloseCalls[g] = 1 /\ closed(g) = "pending"
        /\ hPhase[g] = "closed"

\* C16: blocked and outdated are advisory. The step that resolves either
\* signal leaves db_ and the connection as they were; a blocked open is still
\* pending, not failed; an outdated connection stays open until close() or
\* the engine closes it; and the handle calls db.close() only after the
\* caller invoked close() on it.
C16_SignalsAreAdvisory ==
    /\ [](\A h \in Handles :
            /\ dbCloseCalls[h] > 0 => closeCalled[h]
            /\ hPhase[h] = "closed" => (dbCloseCalls[h] > 0 \/ closeEvents[h] > 0)
            /\ hPhase[h] = "waiting" => (blocked(h) = "resolved" /\ dbPromise[h] = "pending")
            /\ (outdated(h) = "resolved" /\ dbCloseCalls[h] = 0 /\ closeEvents[h] = 0)
                  => hPhase[h] = "open")
    /\ [][\A h \in Handles :
            (blockedSig'[h] # blockedSig[h] \/ outdatedSig'[h] # outdatedSig[h]) =>
                /\ dbPromise'[h] = dbPromise[h] /\ openError'[h] = openError[h]
                /\ dbCloseCalls' = dbCloseCalls
                /\ hPhase[h] = "open" => hPhase'[h] = "open"
                /\ hPhase'[h] \notin {"failed", "closed"}]_vars

\* B is blocked and still pending while the outdated A, left open, runs a
\* transaction.
C16_Witness ==
    \E a, b \in Handles, t \in Txs :
        /\ a # b /\ outdated(a) = "resolved" /\ hPhase[a] = "open"
        /\ blocked(b) = "resolved" /\ hPhase[b] = "waiting" /\ dbPromise[b] = "pending"
        /\ txHandle[t] = a /\ scope[t] = "active" /\ bodyCalls[t] = 1

\* C17: once db_ is rejected, a transaction() call on the handle, made while
\* the open was pending or after it failed, opens no scope and invokes no
\* body; its db_ callback runs before the next task and leaves the result
\* future rejected with the reason of db_.
C17_FailedOpenRejectsTransactions ==
    \A t \in Txs :
        (txHandle[t] # 0 /\ dbPromise[txHandle[t]] = "rejected") =>
            /\ scopesOpened[t] = 0 /\ bodyCalls[t] = 0
            /\ scope[t] \in {"queued", "refused"}
            /\ outcome[t] # "fulfilled"
            /\ scope[t] = "queued" => (outcome[t] = "pending" /\ MicrotaskPending)
            /\ scope[t] = "refused" =>
                  (outcome[t] = "rejected" /\ reason[t] = openError[txHandle[t]])

\* A transaction() call made while the open was pending was rejected with
\* the AbortError of the failed upgrade.
C17_Witness ==
    \E t \in Txs :
        /\ txHandle[t] # 0 /\ hPhase[txHandle[t]] = "failed"
        /\ calledAt[t].db = "pending"
        /\ scope[t] = "refused" /\ outcome[t] = "rejected" /\ reason[t] = "AbortError"

\* C18 (as stated): a transaction() call made after close() was invoked on
\* the handle never opens a scope or has its body invoked, and its result
\* future is rejected.
C18_AfterCloseRejected ==
    /\ [](\A t \in Txs : calledAt[t].close => (scopesOpened[t] = 0 /\ bodyCalls[t] = 0))
    /\ \A t \in Txs : calledAt[t].close ~> (outcome[t] = "rejected")

\* C18 (amended): such a call never opens a scope or has its body invoked and
\* its result future is never fulfilled; the future is rejected in the turn
\* its db_ callback runs, which is before the next task once db_ has settled,
\* and it is pending as long as db_ is pending.
C18_AfterCloseNeverRuns ==
    \A t \in Txs :
        calledAt[t].close =>
            /\ scopesOpened[t] = 0 /\ bodyCalls[t] = 0
            /\ scope[t] \in {"queued", "refused"}
            /\ outcome[t] # "fulfilled"
            /\ scope[t] = "refused" => outcome[t] = "rejected"
            /\ scope[t] = "queued" =>
                  /\ outcome[t] = "pending"
                  /\ dbPromise[txHandle[t]] # "pending" => MicrotaskPending

\* close() was invoked while the handle was opening, transaction() after it:
\* the open succeeded, db.close() ran first and db.transaction() threw.
C18_Witness ==
    \E t \in Txs :
        /\ calledAt[t].close /\ calledAt[t].db = "pending"
        /\ scope[t] = "refused" /\ outcome[t] = "rejected"
        /\ reason[t] = "InvalidStateError"

\* C19: the body is invoked in the turn that opens the scope. There is no
\* state with the scope open and the body not yet invoked, the step that
\* opens the scope is the step that invokes the body, every engine event of
\* the scope (request success or error, commit, abort) is delivered after
\* the body returned, and requests are pending only on an active scope.
C19_BodyInOpeningTurn ==
    /\ [](\A t \in Txs :
            /\ Started(t) => (scopesOpened[t] = 1 /\ bodyCalls[t] = 1)
            /\ scopesOpened[t] = bodyCalls[t]
            /\ inFlight[t] > 0 => scope[t] = "active")
    /\ [][\A t \in Txs :
            /\ scopesOpened'[t] # scopesOpened[t] =>
                  /\ bodyCalls'[t] = bodyCalls[t] + 1
                  /\ scope[t] = "queued" /\ scope'[t] \in {"active", "aborting"}
            /\ (/\ scope[t] \in {"active", "committing", "aborting"}
                /\ (scope'[t] # scope[t] \/ inFlight'[t] # inFlight[t]))
                  => (bodyCalls[t] = 1 /\ bodyCalls'[t] = 1)]_vars

\* The body issued a request and returned a future; the request is pending
\* on the active scope.
C19_Witness ==
    \E t \in Txs : /\ scope[t] = "active" /\ inFlight[t] = 1 /\ bodyCalls[t] = 1
                   /\ result[t] = "futPending"

\* C20: a result future that is fulfilled carries exactly what the body
\* returned: undefined or the plain value it returned, or the value its
\* returned future fulfilled with; and once the scope has committed and the
\* body's value is there, the result future is fulfilled with it.
C20_FulfilledWithBodyValue ==
    \A t \in Txs :
        /\ outcome[t] = "fulfilled" =>
              (value[t] \in Values /\ value[t] = bodyValue[t])
        /\ outcome[t] # "fulfilled" => value[t] = "none"
        /\ (/\ scope[t] = "completed" /\ ~MicrotaskPending
            /\ result[t] \in {"plain", "futFulfilled"}) =>
              (outcome[t] = "fulfilled" /\ value[t] = bodyValue[t])

\* The body returned a future that fulfilled with a value, the scope
\* committed, and the result future carries that value.
C20_Witness ==
    \E t \in Txs : /\ scope[t] = "completed" /\ result[t] = "futFulfilled"
                   /\ outcome[t] = "fulfilled" /\ value[t] = "v"

\* C21: the future request() returns settles exactly once: it is pending
\* until the engine delivers an event to the request, fulfilled with the
\* request's result once success was delivered, rejected with the error the
\* engine reported once error was delivered, and a settled future never
\* changes again.
C21_RequestFutureFollowsEvent ==
    /\ [](\A t \in Txs : \A k \in 1..Len(reqs[t]) :
            LET r == reqs[t][k] IN
            /\ r.ev = "none" => r.fut.outcome = "pending"
            /\ r.ev = "success" => r.fut.outcome = "fulfilled" /\ r.fut.value = r.res
            /\ r.ev = "error" => r.fut.outcome = "rejected" /\ r.fut.reason = r.res)
    /\ [][\A t \in Txs : \A k \in 1..Len(reqs[t]) :
            reqs[t][k].fut.outcome # "pending" =>
                /\ Len(reqs'[t]) = Len(reqs[t])
                /\ reqs'[t][k] = reqs[t][k]]_vars

C21_Witness ==
    \E t \in Txs : \E k \in 1..Len(reqs[t]) :
        /\ reqs[t][k].ev = "error"
        /\ reqs[t][k].fut.outcome = "rejected"
        /\ reqs[t][k].fut.reason = "EngineError"
        /\ scope[t] = "completed"

\* C22 (as stated): once a request of the scope has failed, the result future
\* of a body that returned normally is rejected only if the engine fired the
\* scope's abort event.
C22_RejectedOnlyByAbortEvent ==
    \A t \in Txs :
        ((\E k \in 1..Len(reqs[t]) : reqs[t][k].ev = "error")
            /\ result[t] # "unset"
            /\ outcome[t] = "rejected")
        => scope[t] = "aborted"

\* C22 (amended): the error event of a request neither settles the result
\* future nor makes the core call abort; the result future is rejected only
\* by the abort event, by the body throwing, or after the commit because the
\* future the body returned was rejected.
C22_RequestFailureLeavesResult ==
    /\ [](\A t \in Txs :
            (Started(t) /\ outcome[t] = "rejected") =>
                \/ scope[t] = "aborted"
                \/ result[t] = "unset"
                \/ scope[t] = "completed" /\ result[t] = "futRejected")
    /\ [][\A t \in Txs :
            (\E k \in 1..Len(reqs[t]) :
                reqs[t][k].ev = "none" /\ reqs'[t][k].ev = "error")
            => /\ outcome'[t] = outcome[t]
               /\ reason'[t] = reason[t]
               /\ locked'[t] = locked[t]
               /\ timerAborts'[t] = timerAborts[t]
               /\ (scope'[t] # scope[t] => abortBy'[t] = "engine")]_vars

C22_Witness ==
    \E t \in Txs :
        /\ \E k \in 1..Len(reqs[t]) :
            reqs[t][k].ev = "error" /\ reqs[t][k].fut.outcome = "rejected"
        /\ scope[t] = "completed"
        /\ outcome[t] = "fulfilled"

\* C23: once a scope is aborted, every request future of an operation that
\* was in flight is rejected before the abort event is delivered: none of
\* them is fulfilled after the abort, and none stays pending.
C23_InFlightRejectedOnAbort ==
    /\ [](\A t \in Txs : scope[t] = "aborted" =>
            \A k \in 1..Len(reqs[t]) : reqs[t][k].fut.outcome # "pending")
    /\ [][\A t \in Txs : \A k \in 1..Len(reqs[t]) :
            (scope[t] \in {"aborting", "aborted"}
                /\ reqs[t][k].fut.outcome = "pending")
            => reqs'[t][k].fut.outcome \in {"pending", "rejected"}]_vars
    /\ \A t \in Txs :
            (scope[t] = "aborting") ~>
                (\A k \in 1..Len(reqs[t]) : reqs[t][k].fut.outcome # "pending")

C23_Witness ==
    \E t \in Txs : \E k \in 1..Len(reqs[t]) :
        /\ scope[t] = "aborted"
        /\ abortBy[t] = "timer"
        /\ reqs[t][k].res = "AbortError"
        /\ reqs[t][k].fut.outcome = "rejected"

\* The callbacks of the iteration that were invoked as fn, by position in calls.
CallsOf(fn) == {i \in 1..Len(calls) : calls[i].fn = fn}

\* The caller's own iteration through cursor() or keyCursor().
CallerCursor == curKind \in {"cursor", "keyCursor"}

\* C24: the next callback is invoked at most once per delivered position,
\* continue() is only ever called by the next callback of the position just
\* delivered or by the caller on a cursor that is at rest, never by the
\* dispatch itself; so at most one advance request is in flight, and a
\* position is delivered only to an iteration whose request is pending.
C24_AdvanceOnlyOnContinue ==
    /\ [](/\ Cardinality(CallsOf("next")) <= delivered
          /\ continues <= delivered
          /\ delivered <= continues + 1
          /\ (cursorReq = "ready" => continues + 1 = delivered))
    /\ [][/\ continues' # continues =>
                /\ continues' = continues + 1
                /\ \/ cursorReq = "ready" /\ calls' = calls
                   \/ /\ cursorReq = "pending"
                      /\ Len(calls') = Len(calls) + 1
                      /\ calls'[Len(calls')].fn = "next"
          /\ delivered' # delivered =>
                /\ cursorReq = "pending"
                /\ delivered' = delivered + 1
                /\ Len(calls') <= Len(calls) + 1]_vars

C24_Witness ==
    /\ CallerCursor
    /\ cursorReq = "ready"
    /\ delivered = 2
    /\ continues = 1
    /\ Cardinality(CallsOf("next")) = 2
    /\ Len(EngineOrder(store, curRange, curDir)) = 3

\* C25: the complete callback is invoked only by the event that reports the
\* range exhausted, which invokes the registered one exactly once; it is the
\* last callback of the iteration, so it never follows the error callback
\* and the next callback never follows it.
C25_CompleteOnceAtExhaustion ==
    /\ [](/\ Cardinality(CallsOf("complete")) <= 1
          /\ \A i \in CallsOf("complete") : i = Len(calls) /\ cursorReq = "exhausted"
          /\ \A i \in CallsOf("catch") : \A j \in CallsOf("complete") : j < i)
    /\ [][(cursorReq' = "exhausted" /\ cursorReq # "exhausted")
            => calls' = calls \o
                    (IF builder.completeFn_ = "undefined" THEN <<>>
                     ELSE <<Invocation("complete", builder.completeFn_, 0, "none")>>)]_vars

C25_Witness ==
    /\ CallerCursor
    /\ cursorReq = "exhausted"
    /\ Len(calls) = 3
    /\ calls[1].fn = "next"
    /\ calls[2].fn = "next"
    /\ calls[3].fn = "complete"

\* C26: the error callback is invoked at most once, by the error event of
\* the cursor request, and it is the last callback of the iteration: neither
\* next nor complete is invoked after it.
C26_ErrorEndsIteration ==
    /\ Cardinality(CallsOf("catch")) <= 1
    /\ \A i \in CallsOf("catch") : i = Len(calls) /\ cursorReq = "failed"
    /\ cursorReq = "failed" =>
            Cardinality(CallsOf("next")) <= delivered /\ CallsOf("complete") = {}

C26_Witness ==
    /\ CallerCursor
    /\ cursorReq = "failed"
    /\ Len(calls) = 2
    /\ calls[1].fn = "next"
    /\ calls[2].fn = "catch"
    /\ calls[2].err = "EngineError"
    /\ builder.completeFn_ # "undefined"

\* C27: the three slots of the builder hold, whatever the order of the
\* calls, the callback given to the latest call of next, of complete and of
\* catch, and every event invokes the callback its slot holds at that time.
C27_LastRegistrationWins ==
    /\ [](CallerCursor =>
            /\ builder.callbackFn_ = lastReg["next"]
            /\ builder.completeFn_ = lastReg["complete"]
            /\ builder.errorFn_ = lastReg["catch"])
    /\ [][(CallerCursor /\ calls' # calls) =>
            /\ Len(calls') = Len(calls) + 1
            /\ calls'[Len(calls')].h = lastReg[calls'[Len(calls')].fn]
            /\ calls'[Len(calls')].h # "undefined"]_vars

C27_Witness ==
    /\ CallerCursor
    /\ regs = 3
    /\ lastReg["complete"] = "f"
    /\ lastReg["next"] = "g"
    /\ lastReg["catch"] = "undefined"
    /\ Len(calls) = 2
    /\ calls[1] = Invocation("next", "f", calls[1].key, "none")
    /\ calls[2] = Invocation("next", "g", calls[2].key, "none")

\* The keys the next callbacks received, in order.
KeysSeen == [i \in 1..Len(calls) |-> calls[i].key]

GetAllKind == curKind \in {"getAll", "getAllKeys"}

\* What the range holds for getAll (values) and getAllKeys (primary keys), in
\* the iteration order of the direction the caller gave.
ItemsInOrder ==
    LET order == EngineOrder(store, curRange, curDir)
    IN [i \in 1..Len(order) |->
            IF curKind = "getAllKeys" THEN order[i] ELSE ValueOf(order[i])]

Prefix(q, n) == [i \in 1..n |-> q[i]]

Min(a, b) == IF a <= b THEN a ELSE b

\* C29 (as stated): for every limit K the future of getAll / getAllKeys is
\* fulfilled with the first K items of the range (all of them when the range
\* holds fewer), and no position is delivered beyond the Kth.
C29_FirstKForEveryLimit ==
    (GetAllKind /\ limit # NoLimit) =>
        /\ getAllPromise.outcome = "fulfilled" =>
                getAllPromise.value
                    = Prefix(ItemsInOrder, Min(limit, Len(ItemsInOrder)))
        /\ limit < Len(ItemsInOrder) => delivered <= limit

\* C29 (amended): for a limit K >= 1 over a range of n items the future is
\* fulfilled with the first min(K, n) items; when K <= n it is fulfilled at
\* the Kth position, after K - 1 continue() calls and with no further one,
\* when K > n at exhaustion. A limit of 0 is no limit: the future is
\* fulfilled at exhaustion with all n items.
C29_FirstKForPositiveLimit ==
    LET n == Len(ItemsInOrder) IN
    (GetAllKind /\ limit # NoLimit) =>
        IF limit >= 1
        THEN /\ delivered <= limit
             /\ delivered >= limit => getAllPromise.outcome = "fulfilled"
             /\ getAllPromise.outcome = "fulfilled" =>
                    /\ getAllPromise.value = Prefix(ItemsInOrder, Min(limit, n))
                    /\ limit <= n => /\ delivered = limit
                                     /\ continues = limit - 1
                                     /\ cursorReq = "ready"
                    /\ limit > n => cursorReq = "exhausted"
        ELSE getAllPromise.outcome = "fulfilled" =>
                /\ getAllPromise.value = ItemsInOrder
                /\ cursorReq = "exhausted"
                /\ continues = n

C29_Witness ==
    /\ curKind = "getAll"
    /\ limit = 2
    /\ Len(ItemsInOrder) = 3
    /\ getAllPromise.outcome = "fulfilled"
    /\ Len(getAllPromise.value) = 2
    /\ cursorReq = "ready"

\* C30: without a limit the future of getAll / getAllKeys is fulfilled at the
\* exhausted event and not before, with every item of the range in iteration
\* order, and it is rejected with the cursor's error when the cursor request
\* fails before that.
C30_DrainsWithoutLimit ==
    (GetAllKind /\ limit = NoLimit) =>
        /\ getAllPromise.outcome = "fulfilled" <=> cursorReq = "exhausted"
        /\ getAllPromise.outcome = "fulfilled" =>
                getAllPromise.value = ItemsInOrder
        /\ getAllPromise.outcome = "rejected" <=> cursorReq = "failed"
        /\ getAllPromise.outcome = "rejected" =>
                /\ calls[Len(calls)].fn = "catch"
                /\ getAllPromise.reason = calls[Len(calls)].err
                /\ getAllPromise.reason \in {"EngineError", "AbortError"}

C30_Witness ==
    /\ curKind = "getAllKeys"
    /\ limit = NoLimit
    /\ curDir = "prev"
    /\ getAllPromise.outcome = "fulfilled"
    /\ getAllPromise.value = <<3, 2, 1>>

\* C31: the blocked, outdated and closed signals of a handle are one-shot
\* futures that are never rejected: each is pending or resolved, and a
\* resolved signal stays resolved whatever events follow.
C31_SignalsNeverRejected ==
    /\ [](\A h \in Handles :
            /\ blocked(h) \in {"pending", "resolved"}
            /\ outdated(h) \in {"pending", "resolved"}
            /\ closed(h) \in {"pending", "resolved"})
    /\ [][\A h \in Handles :
            /\ blocked(h) = "resolved" => blockedSig'[h] = "resolved"
            /\ outdated(h) = "resolved" => outdatedSig'[h] = "resolved"
            /\ closed(h) = "resolved" => closedSig'[h] = "resolved"]_vars

\* C32: compareKeys(a, b) = -compareKeys(b, a) for all valid keys, and for
\* the keys a forward cursor delivers, compareKeys(a, b) = -1 exactly when a
\* is delivered before b.
C32_CompareKeysAgreesWithCursor ==
    /\ \A a \in ValidKeys : \A b \in ValidKeys :
            compareKeys(a, b) = 0 - compareKeys(b, a)
    /\ (CallerCursor /\ curDir = "next") =>
            \A i \in CallsOf("next") : \A j \in CallsOf("next") :
                (i < j) <=> (compareKeys(NumberKey(calls[i].key),
                                         NumberKey(calls[j].key)) = 0 - 1)

C32_Witness ==
    /\ CallerCursor
    /\ curDir = "next"
    /\ Cardinality(CallsOf("next")) = 3
    /\ compareKeys(NumberKey(calls[1].key), NumberKey(calls[3].key)) = 0 - 1
    /\ compareKeys(NumberKey(calls[3].key), NumberKey(calls[1].key)) = 1

\* The body of t threw.
Threw(t) == Started(t) /\ result[t] = "unset"

\* C33: a body that throws leaves the result future rejected with the thrown
\* error for good; the executor makes no abort call and leaves the timer the
\* body armed as it is, so the scope can still commit, and the timer that
\* timeoutID names stays armed until it fires or the complete or abort event
\* cancels it.
C33_ThrowLeavesScopeAndTimer ==
    /\ [](\A t \in Txs : Threw(t) => outcome[t] = "rejected" /\ reason[t] = "thrown")
    /\ [][\A t \in Txs :
            /\ (scope[t] = "queued" /\ Threw(t)') =>
                    /\ timerAborts'[t] = timerAborts[t]
                    /\ abortBy'[t] \in {"none", "body"}
                    /\ abortBy'[t] = "none" => scope'[t] = "active"
                    /\ nTimeouts'[t] >= 1 => timeoutID'[t] \in armed'[t]
            /\ (Threw(t) /\ timeoutID[t] \in armed[t]
                    /\ timeoutID[t] \notin armed'[t]) =>
                    \/ scope'[t] \in {"completed", "aborted"} /\ scope'[t] # scope[t]
                    \/ timedOut'[t] /\ timerAborts'[t] = timerAborts[t] + 1]_vars

C33_Witness ==
    \E t \in Txs :
        /\ Threw(t)
        /\ scope[t] = "completed"
        /\ outcome[t] = "rejected"
        /\ nTimeouts[t] = 1
        /\ ~timedOut[t]
        /\ armed[t] = {}
        /\ \E k \in 1..Len(reqs[t]) : reqs[t][k].ev = "success"

\* C34: an open the engine has answered is settled, resolved for an open
\* handle and rejected for a failed one; the open with target version 0,
\* which the engine refuses at once, is a failed open (db_ rejected) and
\* leaves the blocked signal alone.
C34_OpenAlwaysSettles ==
    \A h \in Handles :
        /\ hPhase[h] \in {"open", "closed"} => dbPromise[h] = "resolved"
        /\ hPhase[h] = "failed" => dbPromise[h] = "rejected"
        /\ (hPhase[h] # "none" /\ hTarget[h] = 0) =>
                /\ dbPromise[h] = "rejected"
                /\ blocked(h) # "rejected"

\* The handle is between its open request and the answer to it.
Opening(h) == hPhase[h] \in {"requested", "versionchange", "waiting", "upgrading"}

CalledWhileOpening(t) ==
    /\ txHandle[t] # 0
    /\ calledAt[t].db = "pending"
    /\ ~calledAt[t].close

\* C36: a transaction() call made while the handle is Opening is deferred:
\* its promise stays pending while it waits, its body is not invoked before
\* the open succeeded and the migrations ran, once its callback has run on the
\* opened handle its scope was opened and its body invoked once, and the
\* callbacks of two such calls run in the order of the calls (a lower call
\* number is an earlier call).
C36_DeferredInCallOrder ==
    /\ [](\A t \in Txs : CalledWhileOpening(t) =>
            /\ scope[t] = "queued" => outcome[t] = "pending" /\ bodyCalls[t] = 0
            /\ bodyCalls[t] > 0 =>
                    /\ dbPromise[txHandle[t]] = "resolved"
                    /\ hPhase[txHandle[t]] \in {"open", "closed"}
                    /\ ~upThrew[txHandle[t]]
            /\ (scope[t] \notin {"idle", "queued"} /\ dbPromise[txHandle[t]] = "resolved")
                    => scopesOpened[t] = 1 /\ bodyCalls[t] = 1)
    /\ [][\A t, u \in Txs :
            (/\ t < u
             /\ CalledWhileOpening(t) /\ CalledWhileOpening(u)
             /\ txHandle[t] = txHandle[u]
             /\ scope[u] = "queued" /\ scope'[u] # "queued")
            => scope[t] # "queued"]_vars

C36_Witness ==
    \E t, u \in Txs :
        /\ t < u
        /\ CalledWhileOpening(t) /\ CalledWhileOpening(u)
        /\ txHandle[t] = txHandle[u]
        /\ upgradeCalls[txHandle[t]] = 1
        /\ bodyCalls[t] = 1 /\ bodyCalls[u] = 1

\* The callback of the transaction() call is the next one db_ runs.
CallbackDue(t) ==
    /\ txHandle[t] # 0
    /\ scope[t] = "queued"
    /\ dbPromise[txHandle[t]] = "resolved"
    /\ reactions[txHandle[t]] # <<>>
    /\ Head(reactions[txHandle[t]]) = TxReaction(t)

\* C37: on an open handle the callback of a transaction() call can run, open
\* its scope and invoke its body, whatever state the scopes of the other
\* calls are in; and a scope is tagged as timed out, or aborted by a timer,
\* only in a step in which one of the timers its own body armed fires, a
\* step that leaves every other scope as it is.
C37_NoLockNoSharedTimer ==
    /\ [](\A t \in Txs : CallbackDue(t) => ENABLED TxStart(t))
    /\ [][\A t \in Txs :
            /\ (timedOut'[t] # timedOut[t] \/ (abortBy'[t] = "timer" /\ abortBy[t] # "timer"))
                    => /\ timerAborts'[t] = timerAborts[t] + 1
                       /\ \E id \in armed[t] : id \in 1..nTimeouts[t] /\ armed'[t] = armed[t] \ {id}
            /\ timerAborts'[t] # timerAborts[t] =>
                    \A u \in Txs \ {t} :
                        /\ scope'[u] = scope[u]
                        /\ timedOut'[u] = timedOut[u]
                        /\ abortBy'[u] = abortBy[u]
                        /\ armed'[u] = armed[u]
                        /\ timeoutID'[u] = timeoutID[u]]_vars

C37_Witness ==
    \E t, u \in Txs :
        /\ t < u
        /\ scope[t] = "aborting" /\ abortBy[t] = "timer" /\ timedOut[t]
        /\ scope[u] = "active" /\ armed[u] # {} /\ ~timedOut[u]

\* The callback close() registered on db_ has not run yet.
CloseWaiting(h) ==
    \E k \in 1..Len(reactions[h]) : reactions[h][k] = CloseReaction

\* C38: while the handle is Opening a close() call requests no engine close;
\* the engine close is requested at most once, exactly once when the callback
\* of close() has run on the opened handle, in a step taken after the open
\* succeeded and after the callback of every transaction() call made before
\* close() has run (its scope opened, its body invoked); on a handle whose
\* open failed close() requests no engine close and changes nothing but the
\* callback queue.
C38_CloseDeferred ==
    /\ [](\A h \in Handles :
            /\ dbCloseCalls[h] <= 1
            /\ dbPromise[h] # "resolved" => dbCloseCalls[h] = 0
            /\ (closeCalled[h] /\ dbPromise[h] = "pending") => CloseWaiting(h)
            /\ (closeCalled[h] /\ dbPromise[h] = "resolved" /\ ~CloseWaiting(h))
                    => dbCloseCalls[h] = 1)
    /\ [][\A h \in Handles :
            /\ dbCloseCalls'[h] # dbCloseCalls[h] =>
                    /\ dbPromise[h] = "resolved"
                    /\ \A t \in Txs :
                          (txHandle[t] = h /\ ~calledAt[t].close)
                              => scopesOpened[t] = 1 /\ bodyCalls[t] = 1
            /\ (dbPromise[h] = "rejected" /\ CloseWaiting(h) /\ ~CloseWaiting(h)')
                    => UNCHANGED <<connVars, txVars>>]_vars

C38_Witness ==
    \E h \in Handles, t, u \in Txs :
        /\ t < u
        /\ txHandle[t] = h /\ txHandle[u] = h
        /\ calledAt[t] = [close |-> FALSE, db |-> "pending"]
        /\ calledAt[u] = [close |-> TRUE, db |-> "pending"]
        /\ bodyCalls[t] = 1
        /\ dbCloseCalls[h] = 1
        /\ hPhase[h] = "closed"

\* The constructor call was given neither (number, function) nor an array.
NeitherForm(h) ==
    /\ params[h] # NoParameters
    /\ ~(params[h][1] = "number" /\ params[h][2] = "function")
    /\ params[h][1] # "array"

\* C39: a constructor call given neither (numeric version, upgrade function)
\* nor a migration array throws: no open request reaches the engine for it,
\* no promise of it settles, no upgrade routine runs, the call leaves the
\* database on disk as it was and nothing happens for that call afterwards;
\* while no other constructor call was made the database does not exist.
C39_TypeErrorBeforeOpen ==
    /\ [](\A h \in Handles : NeitherForm(h) =>
            /\ hPhase[h] = "threw"
            /\ sawVersion[h] = -1
            /\ upgradeCalls[h] = 0
            /\ ran[h] = <<>>
            /\ dbPromise[h] = "pending"
            /\ blockedSig[h] = "pending"
            /\ reactions[h] = <<>>)
    /\ []((\A h \in Handles : hPhase[h] \in {"none", "threw"})
            => diskVersion = 0 /\ diskApplied = <<>>)
    /\ [][\A h \in Handles :
            (NeitherForm(h)' /\ ~NeitherForm(h))
                => UNCHANGED <<diskVersion, diskApplied>>]_vars

C39_Witness ==
    \E h, g \in Handles :
        /\ hPhase[h] = "threw" /\ params[h] = <<"number", "undefined">>
        /\ hPhase[g] = "threw" /\ params[g] = <<"other", "function">>
        /\ diskVersion = 0

=============================================================================
